---- MODULE Spec2Model ----
(***************************************************************************)
(* A model of the error-handler package: the localization normalizer, the  *)
(* deep-merge utility, the AppError constructor, the builder and the       *)
(* factories, over an explicit heap of JavaScript objects so that object   *)
(* identity, aliasing and Object.freeze are part of the state.             *)
(***************************************************************************)
EXTENDS Integers, Sequences, FiniteSets, TLC

VARIABLES
  heap,     \* the objects allocated so far; an address is an index of heap
  roots,    \* addresses the calling program holds a reference to
  builder,  \* the `state` closure of the live builder, or NoBuilder
  errors,   \* addresses of the AppError instances returned so far, in order
  log,      \* the calls the program has made: operation, arguments, outcome
  input,    \* the arguments drawn for a pure-function run (<<>> otherwise)
  plugin,        \* the closure of errorHandlerPlugin(options), or NoPlugin
  listeners,     \* what window.addEventListener has registered, in order
  errorHandler,  \* app.config.errorHandler
  unknown,       \* AppError.unknown, on the class app-error.js exports
  callbacks      \* the calls the plugin has made into the host, in order

host == <<plugin, listeners, errorHandler, unknown, callbacks>>
vars == <<heap, roots, builder, errors, log, input, host>>

-----------------------------------------------------------------------------
(* JavaScript values.  A primitive is a tagged record; an object is a      *)
(* reference to a heap cell.                                               *)

Undefined == [t |-> "undefined"]
Null == [t |-> "null"]
NaN == [t |-> "nan"]
Str(s) == [t |-> "string", s |-> s]
Num(n) == [t |-> "number", n |-> n]
Bool(b) == [t |-> "boolean", b |-> b]
Ref(a) == [t |-> "ref", a |-> a]

IsRef(v) == v.t = "ref"

\* value == null
IsNullish(v) == v.t \in {"undefined", "null"}

\* a ?? b
Coalesce(a, b) == IF IsNullish(a) THEN b ELSE a

\* !!value
Truthy(v) ==
  CASE v.t = "undefined" -> FALSE
    [] v.t = "null" -> FALSE
    [] v.t = "nan" -> FALSE
    [] v.t = "string" -> v.s # ""
    [] v.t = "number" -> v.n # 0
    [] v.t = "boolean" -> v.b
    [] OTHER -> TRUE

EmptyProps == [k \in {} |-> Undefined]

\* Heap cells.  kind: "object" (a plain mapping), "array", "error" (a native
\* Error), "apperror" (an AppError instance), "EntryAppError" (an instance of
\* the entry point's subclass of AppError), "date".
Cell(kind, props, elems, frozen) ==
  [kind |-> kind, props |-> props, elems |-> elems, frozen |-> frozen]

PlainObject(props) == Cell("object", props, <<>>, FALSE)
ArrayOf(elems) == Cell("array", EmptyProps, elems, FALSE)

\* An allocation: the extended heap and the reference to the new cell.
New(h, cell) == [h |-> Append(h, cell), v |-> Ref(Len(h) + 1)]

\* const name = value; body(name): the value is computed first, once, and the
\* rest of the function body reads it.
Bind(value, Body(_)) == CHOOSE result \in {Body(name) : name \in {value}} : TRUE

KindOf(h, v) == IF IsRef(v) THEN h[v.a].kind ELSE "primitive"

\* Array.isArray(value)
IsArray(h, v) == KindOf(h, v) = "array"

\* value instanceof Error / AppError / Date
IsError(h, v) == KindOf(h, v) \in {"error", "apperror"}
IsAppError(h, v) == KindOf(h, v) \in {"apperror", "EntryAppError"}
IsDate(h, v) == KindOf(h, v) = "date"

\* A module-level constant of the package (DEFAULT_MESSAGES and the like) is
\* frozen at every depth and never handed out by reference, so it is read by
\* value: a record [t |-> "object", p |-> its properties], not a heap cell.
IsConstant(v) == v.t = "object"

\* typeof value === "object" && value !== null
IsObjectLike(v) == IsRef(v) \/ IsConstant(v)

\* value.key, for a value that is not null or undefined
Get(h, v, key) ==
  IF IsRef(v) THEN (IF key \in DOMAIN h[v.a].props THEN h[v.a].props[key] ELSE Undefined)
  ELSE IF IsConstant(v) /\ key \in DOMAIN v.p THEN v.p[key]
  ELSE Undefined

\* value?.key
OptGet(h, v, key) == IF IsNullish(v) THEN Undefined ELSE Get(h, v, key)

\* "key" in value, for an object
HasKey(h, v, key) ==
  \/ IsRef(v) /\ key \in DOMAIN h[v.a].props
  \/ IsConstant(v) /\ key \in DOMAIN v.p

ElemsOf(h, v) == IF IsArray(h, v) THEN h[v.a].elems ELSE <<>>

\* A set of keys as a sequence, in one fixed order.
RECURSIVE SeqOfSet(_)
SeqOfSet(S) ==
  IF S = {} THEN <<>>
  ELSE LET k == CHOOSE x \in S : TRUE IN <<k>> \o SeqOfSet(S \ {k})

\* The property name of an array index (arrays here are 1-based sequences).
IndexKey(i) == <<"0", "1", "2", "3", "4", "5", "6", "7">>[i]

\* The own enumerable properties of a value, as { ...value } and Object.keys
\* see them: the properties of a plain object, the indices of an array, the
\* assigned fields of an AppError.  The fields of a native Error (message,
\* stack) are not enumerable and its name is inherited; a Date and a
\* primitive have none.
OwnEnumerable(h, v) ==
  CASE IsConstant(v) -> v.p
    [] KindOf(h, v) = "object" -> h[v.a].props
    [] IsAppError(h, v) ->
         [k \in DOMAIN h[v.a].props \ {"message", "stack"} |-> h[v.a].props[k]]
    [] KindOf(h, v) = "array" ->
         [k \in {IndexKey(i) : i \in 1..Len(h[v.a].elems)} |->
            h[v.a].elems[CHOOSE i \in 1..Len(h[v.a].elems) : IndexKey(i) = k]]
    [] OTHER -> EmptyProps

\* Object.keys(value)
KeysOf(h, v) == SeqOfSet(DOMAIN OwnEnumerable(h, v))

\* object[key] = value on a cell the code has just created (never frozen).
SetProp(h, a, key, value) == [h EXCEPT ![a].props = (key :> value) @@ @]

\* A freeze that freezes nothing.
FreezeNothing(h, v) == h

\* Object.freeze(value): shallow, and the identity on primitives.
Freeze(h, v) == IF IsRef(v) THEN [h EXCEPT ![v.a].frozen = TRUE] ELSE h

IsFrozen(h, v) == IsRef(v) => h[v.a].frozen

-----------------------------------------------------------------------------
(* Literals: the structural description of a value.  A program evaluates a *)
(* literal into fresh heap cells (AllocLit); View reads a value back as    *)
(* the literal it is structurally equal to.                                *)

ObjLit(p) == [t |-> "object", p |-> p]
ArrLit(e) == [t |-> "array", e |-> e]
ErrLit(name, message) ==
  [t |-> "error",
   p |-> [name |-> Str(name), message |-> Str(message),
          stack |-> Str("stack of " \o message)]]
DateLit(time) == [t |-> "date", p |-> [time |-> time]]

RECURSIVE AllocLit(_, _), AllocProps(_, _, _, _), AllocElems(_, _, _)

AllocLit(h, lit) ==
  CASE lit.t = "object" ->
         Bind(New(h, PlainObject(EmptyProps)), LAMBDA r :
           Bind(AllocProps(r.h, r.v.a, lit.p, SeqOfSet(DOMAIN lit.p)), LAMBDA filled :
             [h |-> filled, v |-> r.v]))
    [] lit.t = "array" ->
         Bind(New(h, ArrayOf(<<>>)), LAMBDA r :
           Bind(AllocElems(r.h, r.v.a, lit.e), LAMBDA filled :
             [h |-> filled, v |-> r.v]))
    [] lit.t \in {"error", "date"} -> New(h, Cell(lit.t, lit.p, <<>>, FALSE))
    [] OTHER -> [h |-> h, v |-> lit]

AllocProps(h, a, p, keys) ==
  IF keys = <<>> THEN h
  ELSE Bind(AllocLit(h, p[Head(keys)]), LAMBDA r :
       Bind(SetProp(r.h, a, Head(keys), r.v), LAMBDA h1 :
         AllocProps(h1, a, p, Tail(keys))))

AllocElems(h, a, e) ==
  IF e = <<>> THEN h
  ELSE Bind(AllocLit(h, Head(e)), LAMBDA r :
       Bind([r.h EXCEPT ![a].elems = Append(@, r.v)], LAMBDA h1 :
         AllocElems(h1, a, Tail(e))))

RECURSIVE View(_, _)
View(h, v) ==
  IF ~IsRef(v) THEN v
  ELSE LET c == h[v.a]
       IN CASE c.kind = "object" -> ObjLit([k \in DOMAIN c.props |-> View(h, c.props[k])])
            [] c.kind = "array" -> ArrLit([i \in 1..Len(c.elems) |-> View(h, c.elems[i])])
            [] c.kind \in {"error", "date"} ->
                 [t |-> c.kind, p |-> [k \in DOMAIN c.props |-> View(h, c.props[k])]]
            [] OTHER -> v

-----------------------------------------------------------------------------
(* utils/localization.js *)

\* cloneFallback: the two slots of the fallback, null where it has none.
cloneFallback(h, fallback) ==
  [fa |-> Coalesce(OptGet(h, fallback, "fa"), Null),
   en |-> Coalesce(OptGet(h, fallback, "en"), Null)]

\* A normalizer that treats the empty string as absent and does not fill one
\* locale from the other.
ensureLocalizedTextNoCrossFill(h, value, fallback) ==
  LET normalizedFallback == cloneFallback(h, fallback)
  IN IF ~Truthy(value) THEN New(h, PlainObject(normalizedFallback))
     ELSE IF value.t = "string"
       THEN New(h, PlainObject([fa |-> value, en |-> value]))
     ELSE IF IsObjectLike(value)
       THEN New(h, PlainObject(
              [fa |-> Coalesce(Get(h, value, "fa"), normalizedFallback.fa),
               en |-> Coalesce(Get(h, value, "en"), normalizedFallback.en)]))
     ELSE New(h, PlainObject(normalizedFallback))

\* ensureLocalizedText(value, fallback): always a new { fa, en } object.
\* (The fallback copy the code builds and then drops on the string and
\* object paths is not allocated here.)
ensureLocalizedText(h, value, fallback) ==
  LET normalizedFallback == cloneFallback(h, fallback)
  IN IF IsNullish(value) THEN New(h, PlainObject(normalizedFallback))
     ELSE IF value.t = "string"
       THEN New(h, PlainObject([fa |-> value, en |-> value]))
     ELSE IF IsObjectLike(value)
       THEN New(h, PlainObject(
              [fa |-> Coalesce(Get(h, value, "fa"),
                               Coalesce(Get(h, value, "en"), normalizedFallback.fa)),
               en |-> Coalesce(Get(h, value, "en"),
                               Coalesce(Get(h, value, "fa"), normalizedFallback.en))]))
     ELSE New(h, PlainObject(normalizedFallback))

-----------------------------------------------------------------------------
(* utils/deep-merge.js *)

\* isObject: not null, typeof "object", not an array.
isObject(h, v) == IsRef(v) /\ h[v.a].kind # "array"

RECURSIVE deepMerge(_, _, _), mergeValue(_, _, _), mergeKeys(_, _, _, _, _)

\* A deepMerge that writes the merged keys into target itself.
deepMergeInPlace(h, target, source) ==
  IF ~isObject(h, target) \/ ~isObject(h, source)
  THEN IF isObject(h, source)
       THEN New(h, PlainObject(OwnEnumerable(h, source)))
       ELSE [h |-> h, v |-> source]
  ELSE mergeKeys(h, target.a, target, source, KeysOf(h, source))

deepMerge(h, target, source) ==
  IF ~isObject(h, target) \/ ~isObject(h, source)
  THEN IF isObject(h, source)
       THEN New(h, PlainObject(OwnEnumerable(h, source)))
       ELSE [h |-> h, v |-> source]
  ELSE Bind(New(h, PlainObject(OwnEnumerable(h, target))), LAMBDA result :
         mergeKeys(result.h, result.v.a, target, source, KeysOf(h, source)))

\* A merge of one key in which the source's value always replaces the target's.
mergeValueSourceWins(h, targetValue, sourceValue) ==
  IF isObject(h, targetValue) /\ isObject(h, sourceValue)
  THEN deepMerge(h, targetValue, sourceValue)
  ELSE [h |-> h, v |-> sourceValue]

\* The value stored under one key of source: the body of the for loop.
mergeValue(h, targetValue, sourceValue) ==
  IF IsArray(h, targetValue) /\ IsArray(h, sourceValue)
  THEN New(h, ArrayOf(ElemsOf(h, targetValue) \o ElemsOf(h, sourceValue)))
  ELSE IF isObject(h, targetValue) /\ isObject(h, sourceValue)
  THEN deepMerge(h, targetValue, sourceValue)
  ELSE IF isObject(h, sourceValue)
  THEN Bind(New(h, PlainObject(EmptyProps)), LAMBDA empty :
         deepMerge(empty.h, empty.v, sourceValue))
  ELSE [h |-> h, v |-> sourceValue]

\* The for loop over Object.keys(source), writing into the cell `result`.
mergeKeys(h, result, target, source, keys) ==
  IF keys = <<>> THEN [h |-> h, v |-> Ref(result)]
  ELSE Bind(mergeValue(h, Get(h, target, Head(keys)), Get(h, source, Head(keys))),
            LAMBDA r :
       Bind(SetProp(r.h, result, Head(keys), r.v), LAMBDA h1 :
         mergeKeys(h1, result, target, source, Tail(keys))))

-----------------------------------------------------------------------------
(* constants.js.  The Persian texts are written as "fa: " and the English  *)
(* gloss: only their identity matters.                                     *)

ERROR_TYPES ==
  {"network", "validation", "mapping", "permission", "component", "environment",
   "system", "unknown", "feature"}

ERROR_LEVELS == {"debug", "info", "warn", "error", "fatal"}

\* Names every object inherits a function under (Object.prototype).
InheritedKeys == {"toString", "valueOf", "hasOwnProperty", "constructor"}

\* The function an object inherits under key.
Inherited(key) == [t |-> "function", s |-> "Object.prototype." \o key]

\* DEFAULT_LEVEL_BY_TYPE[type]: the table is a frozen plain object, so a key
\* outside the table reads as what the object inherits under it, and as
\* undefined when it inherits nothing.
DEFAULT_LEVEL_BY_TYPE(type) ==
  IF type.t = "string" /\ type.s \in ERROR_TYPES
  THEN Str(CASE type.s \in {"network", "mapping", "component", "system", "unknown"} -> "error"
             [] type.s \in {"validation", "permission"} -> "warn"
             [] type.s = "environment" -> "fatal"
             [] type.s = "feature" -> "info")
  ELSE IF type.t = "string" /\ type.s \in InheritedKeys THEN Inherited(type.s)
  ELSE Undefined

Text(fa, en) == ObjLit([fa |-> Str(fa), en |-> Str(en)])
Same(en) == Text("fa: " \o en, en)
Messages(user, original) == ObjLit([user |-> user, original |-> original])

DEFAULT_MESSAGES ==
  Messages(Same("An unexpected error occurred"), Same("An unexpected error occurred"))

\* DEFAULT_TYPE_MESSAGES[type], undefined for a type outside the table.
DEFAULT_TYPE_MESSAGES(type) ==
  CASE type = "network" ->
         Messages(Same("Network connection issue"), Same("Network connection issue"))
    [] type = "validation" ->
         Messages(Same("Provided data is invalid"), Same("Provided data is invalid"))
    [] type = "mapping" ->
         Messages(Same("Data processing encountered an error"), Same("Data mapping failed"))
    [] type = "permission" ->
         Messages(Same("Permission denied"), Same("User lacks required permission"))
    [] type = "component" ->
         Messages(Same("The application component failed"),
                  Same("The application component failed"))
    [] type = "environment" ->
         Messages(Same("Application environment misconfigured"),
                  Same("Runtime environment failure detected"))
    [] type = "system" ->
         Messages(Same("A system error occurred"), Same("System experienced an error"))
    [] type = "unknown" ->
         Messages(Same("An unknown error occurred"),
                  Same("No additional error details available"))
    [] type = "feature" ->
         Messages(Same("This feature is currently unavailable"),
                  Same("Feature flag disabled or feature unavailable"))
    [] OTHER -> Undefined

-----------------------------------------------------------------------------
(* Dates.  Time is counted in seconds.                                     *)

\* Date.parse(text): the time of the date strings the model uses, NaN for a
\* text that is no date.
DateParse(text) ==
  CASE text = "2023-01-01T00:00:00Z" -> Num(1672531200)
    [] text = "2024-01-01T00:00:00Z" -> Num(1704067200)
    [] text = "2024-05-10T13:00:00Z" -> Num(1715346000)
    [] OTHER -> NaN

\* new Date(value).getTime()
TimeValue(h, value) ==
  CASE IsDate(h, value) -> h[value.a].props.time
    [] value.t = "number" -> value
    [] value.t = "string" -> DateParse(value.s)
    [] value.t = "null" -> Num(0)
    [] value.t = "boolean" -> Num(IF value.b THEN 1 ELSE 0)
    [] OTHER -> NaN

NewDate(h, time) == New(h, Cell("date", [time |-> time], <<>>, FALSE))

-----------------------------------------------------------------------------
(* app-error.js *)

\* A parameter or destructured field with a default value.
Default(value, default) == IF value = Undefined THEN default ELSE value

\* A frozen object literal: Object.freeze({ ...props }).
Frozen(props) == Cell("object", props, <<>>, TRUE)

toArray(h, value) ==
  IF IsNullish(value) THEN New(h, ArrayOf(<<>>))
  ELSE IF IsArray(h, value) THEN [h |-> h, v |-> value]
  ELSE New(h, ArrayOf(<<value>>))

\* normalizeMessages(messages = {}): reading messages.user throws a TypeError
\* when messages is null.
normalizeMessages(h, messagesArg) ==
  LET messages == Default(messagesArg, ObjLit(EmptyProps))
      userSource == IF messages.t = "string" THEN messages
                    ELSE Coalesce(Get(h, messages, "user"), Get(h, messages, "original"))
      originalSource == IF messages.t = "string" THEN messages
                        ELSE Coalesce(Get(h, messages, "original"), Get(h, messages, "user"))
  IN IF messages = Null
     THEN [h |-> h, user |-> Undefined, original |-> Undefined, threw |-> TRUE]
     ELSE Bind(ensureLocalizedText(h, userSource, DEFAULT_MESSAGES.p.user), LAMBDA u :
          Bind(ensureLocalizedText(u.h, originalSource, DEFAULT_MESSAGES.p.original), LAMBDA o :
            [h |-> o.h, user |-> u.v, original |-> o.v, threw |-> FALSE]))

\* The callback of normalizeBreadcrumbs' map: null for an entry to drop.
normalizeBreadcrumb(h, breadcrumb, now) ==
  IF ~Truthy(breadcrumb) THEN [h |-> h, v |-> Null]
  ELSE IF breadcrumb.t = "string"
  THEN Bind(ensureLocalizedText(h, breadcrumb, DEFAULT_MESSAGES.p.user), LAMBDA m :
         New(m.h, Frozen([message |-> m.v, category |-> Null, level |-> Null,
                          data |-> Null, timestamp |-> Num(now)])))
  ELSE LET message == Get(h, breadcrumb, "message")
           timestamp == Get(h, breadcrumb, "timestamp")
           timeValue == IF Truthy(timestamp) THEN TimeValue(h, timestamp) ELSE Num(now)
       IN IF ~Truthy(message) THEN [h |-> h, v |-> Null]
          ELSE Bind(ensureLocalizedText(h, message, DEFAULT_MESSAGES.p.user), LAMBDA m :
                 New(m.h, Frozen(
                        [message |-> m.v,
                         category |-> Coalesce(Get(h, breadcrumb, "category"), Null),
                         level |-> Coalesce(Get(h, breadcrumb, "level"), Null),
                         data |-> Coalesce(Get(h, breadcrumb, "data"), Null),
                         timestamp |-> IF timeValue = NaN THEN Num(now) ELSE timeValue])))

\* .map(callback).filter(Boolean) over the entries of a trail.
RECURSIVE mapBreadcrumbs(_, _, _, _)
mapBreadcrumbs(h, entries, now, kept) ==
  IF entries = <<>> THEN [h |-> h, elems |-> kept]
  ELSE Bind(normalizeBreadcrumb(h, Head(entries), now), LAMBDA r :
         mapBreadcrumbs(r.h, Tail(entries), now,
                        IF Truthy(r.v) THEN Append(kept, r.v) ELSE kept))

\* normalizeBreadcrumbs(breadcrumbs = [])
normalizeBreadcrumbs(h, breadcrumbsArg, now) ==
  Bind(IF breadcrumbsArg = Undefined THEN New(h, ArrayOf(<<>>))
       ELSE toArray(h, breadcrumbsArg), LAMBDA trail :
  Bind(mapBreadcrumbs(trail.h, ElemsOf(trail.h, trail.v), now, <<>>), LAMBDA r :
    New(r.h, ArrayOf(r.elems))))

normalizeCause(h, cause) ==
  IF ~Truthy(cause) THEN [h |-> h, v |-> Null]
  ELSE IF IsAppError(h, cause) THEN [h |-> h, v |-> cause]
  ELSE IF IsError(h, cause)
  THEN Bind(ensureLocalizedText(h, Get(h, cause, "message"), DEFAULT_MESSAGES.p.original),
            LAMBDA m :
         New(m.h, Frozen([name |-> Get(h, cause, "name"), message |-> m.v,
                          stack |-> Get(h, cause, "stack")])))
  ELSE IF IsObjectLike(cause) /\ HasKey(h, cause, "message")
  THEN Bind(ensureLocalizedText(h, Get(h, cause, "message"), DEFAULT_MESSAGES.p.original),
            LAMBDA m :
         New(m.h, Frozen(("message" :> m.v) @@ OwnEnumerable(h, cause))))
  ELSE [h |-> h, v |-> cause]

\* A map over the causes that keeps the entries normalizeCause maps to null.
RECURSIVE mapCausesKeepingAll(_, _, _)
mapCausesKeepingAll(h, entries, kept) ==
  IF entries = <<>> THEN [h |-> h, elems |-> kept]
  ELSE Bind(normalizeCause(h, Head(entries)), LAMBDA r :
         mapCausesKeepingAll(r.h, Tail(entries), Append(kept, r.v)))

\* causes.map(normalizeCause).filter(Boolean)
RECURSIVE mapCauses(_, _, _)
mapCauses(h, entries, kept) ==
  IF entries = <<>> THEN [h |-> h, elems |-> kept]
  ELSE Bind(normalizeCause(h, Head(entries)), LAMBDA r :
         mapCauses(r.h, Tail(entries), IF Truthy(r.v) THEN Append(kept, r.v) ELSE kept))

\* Array.isArray(causes) ? causes.map(normalizeCause).filter(Boolean) : []
normalizeCauses(h, causes) ==
  IF IsArray(h, causes)
  THEN Bind(mapCauses(h, ElemsOf(h, causes), <<>>), LAMBDA r : New(r.h, ArrayOf(r.elems)))
  ELSE New(h, ArrayOf(<<>>))

\* The stack an instance ends with: the explicit one, else originalError's,
\* else one captured at the call site.
resolveStack(h, stack, originalError) ==
  IF Truthy(stack) THEN stack
  ELSE IF Truthy(OptGet(h, originalError, "stack")) THEN Get(h, originalError, "stack")
  ELSE Str("captured stack")

\* this.timestamp = timestamp instanceof Date ? timestamp : new Date(timestamp)
resolveTimestamp(h, timestamp, now) ==
  IF timestamp = Undefined THEN NewDate(h, Num(now))
  ELSE IF IsDate(h, timestamp) THEN [h |-> h, v |-> timestamp]
  ELSE NewDate(h, TimeValue(h, timestamp))

\* new AppError(options) at time now: the new heap and the instance, or threw.
\* f is the destructured option bag.
AppErrorFrom(h, f, now) ==
  Bind(normalizeMessages(h, f.messages), LAMBDA nm :
    IF nm.threw THEN [h |-> h, v |-> Undefined, threw |-> TRUE]
    ELSE
  Bind(New(nm.h, Frozen(OwnEnumerable(nm.h, nm.user))), LAMBDA user :
  Bind(New(user.h, Frozen(OwnEnumerable(user.h, nm.original))), LAMBDA original :
  Bind(New(original.h, Frozen([user |-> user.v, original |-> original.v])), LAMBDA messages :
  Bind(IF f.descriptions = Undefined THEN New(messages.h, ArrayOf(<<>>))
       ELSE [h |-> messages.h, v |-> f.descriptions], LAMBDA descriptions :
  Bind(LET h1 == Freeze(descriptions.h, descriptions.v)
       IN IF Truthy(Default(f.service, Null))
          THEN New(h1, Frozen(OwnEnumerable(h1, f.service)))
          ELSE [h |-> h1, v |-> Null], LAMBDA service :
  Bind(New(service.h, Frozen(OwnEnumerable(service.h, f.metadata))), LAMBDA metadata :
  Bind(normalizeBreadcrumbs(metadata.h, f.breadcrumbs, now), LAMBDA breadcrumbs :
  Bind(LET h2 == Freeze(breadcrumbs.h, breadcrumbs.v)
       IN IF f.causes = Undefined THEN New(h2, ArrayOf(<<>>))
          ELSE normalizeCauses(h2, f.causes), LAMBDA causes :
  Bind(resolveTimestamp(Freeze(causes.h, causes.v), f.timestamp, now), LAMBDA date :
  Bind(New(date.h,
           Cell("apperror",
                  [message |-> Coalesce(Get(nm.h, nm.user, "en"),
                                 Coalesce(Get(nm.h, nm.user, "fa"),
                                          DEFAULT_MESSAGES.p.user.p.en)),
                   name |-> Str("AppError"),
                   code |-> f.code,
                   type |-> f.type,
                   level |-> Coalesce(f.level,
                               Coalesce(DEFAULT_LEVEL_BY_TYPE(f.type), Str("error"))),
                   messages |-> messages.v,
                   reason |-> Default(f.reason, Null),
                   descriptions |-> descriptions.v,
                   service |-> service.v,
                   metadata |-> metadata.v,
                   breadcrumbs |-> breadcrumbs.v,
                   causes |-> causes.v,
                   originalError |-> Coalesce(f.originalError, Null),
                   timestamp |-> date.v,
                   stack |-> resolveStack(h, Default(f.stack, Null),
                                          Default(f.originalError, Null))],
                <<>>, TRUE)),
       LAMBDA instance :
    [h |-> instance.h, v |-> instance.v, threw |-> FALSE])))))))))))

OptionKeys ==
  {"code", "type", "level", "messages", "reason", "descriptions", "service", "metadata",
   "breadcrumbs", "causes", "originalError", "timestamp", "stack"}

\* The destructuring of the constructor's parameter.
AppErrorConstructor(h, options, now) ==
  AppErrorFrom(h, [k \in OptionKeys |-> Get(h, options, k)], now)

\* index.js: class AppError extends BaseAppError, whose constructor only
\* calls super(options).  The instance is one of the subclass.
EntryAppErrorConstructor(h, options, now) ==
  Bind(AppErrorConstructor(h, options, now), LAMBDA r :
    IF r.threw THEN r
    ELSE [r EXCEPT !.h = [r.h EXCEPT ![r.v.a].kind = "EntryAppError"]])

\* value instanceof AppError, for the AppError the entry point exports.
IsEntryAppError(h, v) == KindOf(h, v) = "EntryAppError"

-----------------------------------------------------------------------------
(* utils/localization.js, cloneLocalizedMessages; app-error.builder.js *)

\* cloneLocalizedMessages(messages = {}): both texts normalized with no
\* fallback, in a new { user, original } object.
cloneLocalizedMessages(h, messagesArg) ==
  LET messages == Default(messagesArg, ObjLit(EmptyProps))
  IN Bind(ensureLocalizedText(h, Get(h, messages, "user"), Undefined), LAMBDA u :
     Bind(ensureLocalizedText(u.h, Get(h, messages, "original"), Undefined), LAMBDA o :
       New(o.h, PlainObject([user |-> u.v, original |-> o.v]))))

\* code.trim(), on the codes the model draws.
Trim(s) ==
  CASE s = "   " -> ""
    [] s = " PADDED " -> "PADDED"
    [] OTHER -> s

\* The three assertions, as the condition under which they do not throw.
assertCode(code) == code.t = "string" /\ Trim(code.s) # ""
assertType(type) == type.t = "string" /\ type.s \in ERROR_TYPES
assertLevel(level) == level.t = "string" /\ level.s \in ERROR_LEVELS

\* An ensureArray that, like the constructor, takes a value that is no array
\* for an empty one.
ensureArrayStrict(h, value) ==
  IF IsArray(h, value) THEN [h |-> h, v |-> value] ELSE New(h, ArrayOf(<<>>))

ensureArray(h, value) ==
  IF IsNullish(value) THEN New(h, ArrayOf(<<>>))
  ELSE IF IsArray(h, value) THEN [h |-> h, v |-> value]
  ELSE New(h, ArrayOf(<<value>>))

createDefaultMessages(h) == cloneLocalizedMessages(h, DEFAULT_MESSAGES)

normalizeMessagesInput(h, value) ==
  IF ~Truthy(value) THEN createDefaultMessages(h)
  ELSE IF value.t = "string"
  THEN Bind(ensureLocalizedText(h, value, DEFAULT_MESSAGES.p.user), LAMBDA u :
       Bind(ensureLocalizedText(u.h, value, DEFAULT_MESSAGES.p.original), LAMBDA o :
         New(o.h, PlainObject([user |-> u.v, original |-> o.v]))))
  ELSE IF IsObjectLike(value)
  THEN Bind(ensureLocalizedText(h,
              Coalesce(Get(h, value, "user"), Get(h, value, "original")),
              DEFAULT_MESSAGES.p.user), LAMBDA u :
       Bind(ensureLocalizedText(u.h,
              Coalesce(Get(h, value, "original"), Get(h, value, "user")),
              DEFAULT_MESSAGES.p.original), LAMBDA o :
         New(o.h, PlainObject([user |-> u.v, original |-> o.v]))))
  ELSE createDefaultMessages(h)

\* The outcome of a builder call: the heap, the builder's state, whether the
\* call threw (the heap and the state are then the ones before the call).
Done(h, state) == [h |-> h, state |-> state, threw |-> FALSE]
Thrown(h, state) == [h |-> h, state |-> state, threw |-> TRUE]

NoState == [code |-> Undefined]

\* createAppErrorBuilder({ code, type }) at time now: the `state` of the new
\* builder.
createAppErrorBuilder(h, arg, now) ==
  LET code == Get(h, arg, "code")
      type == Get(h, arg, "type")
  IN IF IsNullish(arg) \/ ~assertCode(code) \/ ~assertType(type) THEN Thrown(h, NoState)
     ELSE
  Bind(createDefaultMessages(h), LAMBDA messages :
  Bind(New(messages.h, ArrayOf(<<>>)), LAMBDA descriptions :
  Bind(New(descriptions.h, PlainObject(EmptyProps)), LAMBDA metadata :
  Bind(New(metadata.h, ArrayOf(<<>>)), LAMBDA breadcrumbs :
  Bind(New(breadcrumbs.h, ArrayOf(<<>>)), LAMBDA causes :
  Bind(NewDate(causes.h, Num(now)), LAMBDA timestamp :
    Done(timestamp.h,
         [code |-> Str(Trim(code.s)),
          type |-> type,
          level |-> Coalesce(DEFAULT_LEVEL_BY_TYPE(type), Str("error")),
          messages |-> messages.v,
          reason |-> Null,
          descriptions |-> descriptions.v,
          service |-> Null,
          metadata |-> metadata.v,
          breadcrumbs |-> breadcrumbs.v,
          causes |-> causes.v,
          originalError |-> Null,
          timestamp |-> timestamp.v])))))))

withMessages(h, state, messages) ==
  Bind(normalizeMessagesInput(h, messages), LAMBDA r :
    Done(r.h, [state EXCEPT !.messages = r.v]))

withReason(h, state, reason) ==
  IF ~IsNullish(reason) /\ reason.t # "string" THEN Thrown(h, state)
  ELSE Done(h, [state EXCEPT !.reason = Coalesce(reason, Null)])

\* A withLevel that stores the level before it validates it.
withLevelAssigning(h, state, level) ==
  IF ~assertLevel(level) THEN Thrown(h, [state EXCEPT !.level = level])
  ELSE Done(h, [state EXCEPT !.level = level])

withLevel(h, state, level) ==
  IF ~assertLevel(level) THEN Thrown(h, state)
  ELSE Done(h, [state EXCEPT !.level = level])

\* A withService that keeps the fields of the stored descriptor the new one
\* lacks.
withServiceMerging(h, state, serviceArg) ==
  LET service == Default(serviceArg, ObjLit(EmptyProps))
      kept(key) == Default(Get(h, service, key), Coalesce(OptGet(h, state.service, key), Null))
  IN IF service = Null THEN Thrown(h, state)
     ELSE Bind(New(h, PlainObject(
                 [name |-> kept("name"), method |-> kept("method"),
                  args |-> kept("args"), operation |-> kept("operation")])),
               LAMBDA r : Done(r.h, [state EXCEPT !.service = r.v]))

\* withService(service = {}): destructuring null throws.
withService(h, state, serviceArg) ==
  LET service == Default(serviceArg, ObjLit(EmptyProps))
  IN IF service = Null THEN Thrown(h, state)
     ELSE Bind(New(h, PlainObject(
                 [name |-> Default(Get(h, service, "name"), Null),
                  method |-> Default(Get(h, service, "method"), Null),
                  args |-> Default(Get(h, service, "args"), Null),
                  operation |-> Default(Get(h, service, "operation"), Null)])),
               LAMBDA r : Done(r.h, [state EXCEPT !.service = r.v]))

\* A withMetadata that replaces the accumulated metadata with the argument.
withMetadataReplacing(h, state, extraArg) ==
  IF extraArg = Undefined
  THEN Bind(New(h, PlainObject(EmptyProps)), LAMBDA r :
         Done(r.h, [state EXCEPT !.metadata = r.v]))
  ELSE IF ~IsRef(extraArg) THEN Thrown(h, state)
  ELSE Done(h, [state EXCEPT !.metadata = extraArg])

\* withMetadata(extra = {})
withMetadata(h, state, extraArg) ==
  IF extraArg = Undefined
  THEN Bind(New(h, PlainObject(EmptyProps)), LAMBDA extra :
       Bind(deepMerge(extra.h, state.metadata, extra.v), LAMBDA r :
         Done(r.h, [state EXCEPT !.metadata = r.v])))
  ELSE IF IsNullish(extraArg) \/ ~IsRef(extraArg) THEN Thrown(h, state)
  ELSE Bind(deepMerge(h, state.metadata, extraArg), LAMBDA r :
         Done(r.h, [state EXCEPT !.metadata = r.v]))

withDescriptions(h, state, descriptions) ==
  Bind(ensureArray(h, descriptions), LAMBDA r :
    Done(r.h, [state EXCEPT !.descriptions = r.v]))

withBreadcrumbs(h, state, breadcrumbs) ==
  Bind(ensureArray(h, breadcrumbs), LAMBDA r :
    Done(r.h, [state EXCEPT !.breadcrumbs = r.v]))

withCauses(h, state, causes) ==
  Bind(ensureArray(h, causes), LAMBDA r :
    Done(r.h, [state EXCEPT !.causes = r.v]))

\* A withOriginalError that stores whatever it is given.
withOriginalErrorUnchecked(h, state, error) ==
  IF error = Undefined THEN Done(h, state)
  ELSE Done(h, [state EXCEPT !.originalError = error])

\* A withOriginalError for which undefined clears the stored error.
withOriginalErrorClearing(h, state, error) ==
  IF error # Null /\ error # Undefined /\ ~IsError(h, error) THEN Thrown(h, state)
  ELSE Done(h, [state EXCEPT !.originalError = Coalesce(error, Null)])

withOriginalError(h, state, error) ==
  IF error = Undefined THEN Done(h, state)
  ELSE IF error # Null /\ ~IsError(h, error) THEN Thrown(h, state)
  ELSE Done(h, [state EXCEPT !.originalError = error])

\* Date.parse(timestamp) of a value that is not a Date: a string is parsed;
\* undefined, null, a boolean and a plain object read as texts that are no
\* date.
DateParseOf(timestamp) ==
  IF timestamp.t = "string" THEN DateParse(timestamp.s) ELSE NaN

withTimestamp(h, state, timestamp) ==
  IF ~IsDate(h, timestamp) /\ DateParseOf(timestamp) = NaN THEN Thrown(h, state)
  ELSE IF IsDate(h, timestamp) THEN Done(h, [state EXCEPT !.timestamp = timestamp])
  ELSE Bind(NewDate(h, TimeValue(h, timestamp)), LAMBDA r :
         Done(r.h, [state EXCEPT !.timestamp = r.v]))

\* build(): Object.freeze(new AppError({ ...the twelve fields of state })).
build(h, state, now) ==
  AppErrorFrom(h, [k \in OptionKeys |-> IF k = "stack" THEN Undefined ELSE state[k]], now)

-----------------------------------------------------------------------------
(* helpers/factories.js *)

\* A destructured option bag: its own properties; a field it lacks reads as
\* undefined, and ...rest is what is left once the named fields are taken.
Bag(h, options) == IF IsRef(options) THEN OwnEnumerable(h, options) ELSE EmptyProps
Field(bag, key) == IF key \in DOMAIN bag THEN bag[key] ELSE Undefined
Rest(bag, taken) == [k \in DOMAIN bag \ taken |-> bag[k]]

\* The next call on the builder, unless an earlier one threw.
Then(call, Step(_)) == Bind(call, LAMBDA r : IF r.threw THEN r ELSE Step(r))

\* A cloneTypeMessages that takes the package-wide default texts for every
\* category.
cloneTypeMessagesGlobal(h, type, messages) ==
  Bind(ensureLocalizedText(h, IF Truthy(messages) THEN Coalesce(Get(h, messages, "user"),
                                                                messages)
                              ELSE Undefined, DEFAULT_MESSAGES.p.user), LAMBDA u :
  Bind(ensureLocalizedText(u.h, IF Truthy(messages)
                                THEN Coalesce(Get(h, messages, "original"), messages)
                                ELSE Undefined, DEFAULT_MESSAGES.p.original), LAMBDA o :
    New(o.h, PlainObject([user |-> u.v, original |-> o.v]))))

cloneTypeMessages(h, type, messages) ==
  LET defaults == Coalesce(DEFAULT_TYPE_MESSAGES(type), DEFAULT_MESSAGES)
      userSource == IF messages.t = "string" THEN messages
                    ELSE Coalesce(Get(h, messages, "user"), messages)
      originalSource == IF messages.t = "string" THEN messages
                        ELSE Coalesce(Get(h, messages, "original"), messages)
  IN IF ~Truthy(messages)
     THEN Bind(New(h, PlainObject(defaults.p.user.p)), LAMBDA u :
          Bind(New(u.h, PlainObject(defaults.p.original.p)), LAMBDA o :
            New(o.h, PlainObject([user |-> u.v, original |-> o.v]))))
     ELSE Bind(ensureLocalizedText(h, userSource, defaults.p.user), LAMBDA u :
          Bind(ensureLocalizedText(u.h, originalSource, defaults.p.original), LAMBDA o :
            New(o.h, PlainObject([user |-> u.v, original |-> o.v]))))

\* applyCommonOptions(builder, type, options): options is the bag.
applyCommonOptions(h, state, type, o) ==
  Bind(cloneTypeMessages(h, type, Field(o, "messages")), LAMBDA m :
  Then(withMessages(m.h, state, m.v), LAMBDA r1 :
  Then(IF Field(o, "reason") # Undefined
       THEN withReason(r1.h, r1.state, Field(o, "reason")) ELSE r1, LAMBDA r2 :
  Then(IF Truthy(Field(o, "level"))
       THEN withLevel(r2.h, r2.state, Field(o, "level")) ELSE r2, LAMBDA r3 :
  Then(IF Truthy(Field(o, "descriptions"))
       THEN withDescriptions(r3.h, r3.state, Field(o, "descriptions")) ELSE r3, LAMBDA r4 :
  Then(IF Truthy(Field(o, "metadata")) /\ Len(KeysOf(r4.h, Field(o, "metadata"))) > 0
       THEN withMetadata(r4.h, r4.state, Field(o, "metadata")) ELSE r4, LAMBDA r5 :
  Then(IF Truthy(Field(o, "service"))
       THEN withService(r5.h, r5.state, Field(o, "service")) ELSE r5, LAMBDA r6 :
  Then(IF Truthy(Field(o, "breadcrumbs"))
       THEN withBreadcrumbs(r6.h, r6.state, Field(o, "breadcrumbs")) ELSE r6, LAMBDA r7 :
  Then(IF Truthy(Field(o, "causes"))
       THEN withCauses(r7.h, r7.state, Field(o, "causes")) ELSE r7, LAMBDA r8 :
  Then(IF IsError(r8.h, Field(o, "originalError"))
       THEN withOriginalError(r8.h, r8.state, Field(o, "originalError")) ELSE r8, LAMBDA r9 :
       IF Truthy(Field(o, "timestamp"))
       THEN withTimestamp(r9.h, r9.state, Field(o, "timestamp")) ELSE r9))))))))))

\* The outcome of a factory: the heap and the error, or threw.
Failed(h) == [h |-> h, v |-> Undefined, threw |-> TRUE]

\* const build = (builder) => builder.build(), after the calls that led to r.
buildAfter(calls, now) ==
  Bind(calls, LAMBDA r : IF r.threw THEN Failed(r.h) ELSE build(r.h, r.state, now))

\* builder.withMetadata({ ...props }) after the calls that led to r.
withMetadataOf(calls, props) ==
  Then(calls, LAMBDA s :
    Bind(New(s.h, PlainObject(props)), LAMBDA m : withMetadata(m.h, s.state, m.v)))

\* Object.values(object).some((value) => value != null)
SomeNotNull(props) == \E k \in DOMAIN props : ~IsNullish(props[k])

\* normalizeHttpMetadata(metadata = {})
normalizeHttpMetadata(h, metadataArg) ==
  IF metadataArg # Undefined /\ (~Truthy(metadataArg) \/ ~IsRef(metadataArg))
  THEN New(h, PlainObject(EmptyProps))
  ELSE LET bag == Bag(h, metadataArg)
       IN New(h, PlainObject(
            [url |-> Default(Field(bag, "url"), Null),
             method |-> Default(Field(bag, "method"), Null),
             status |-> Default(Field(bag, "status"), Null),
             response |-> Field(bag, "response"),
             headers |-> Field(bag, "headers"),
             payload |-> Field(bag, "payload")]
            @@ Rest(bag, {"url", "method", "status", "response", "headers", "payload"})))

createNetworkError(h, options, now) ==
  LET bag == Bag(h, options)
      code == Default(Field(bag, "code"), Str("NETWORK_ERROR"))
      rest == Rest(bag, {"code", "metadata", "retryCount", "isOffline"})
      enrichedMetadata ==
        [retryCount |-> Coalesce(Field(bag, "retryCount"), Null),
         isOffline |-> Default(Field(bag, "isOffline"), Bool(FALSE))]
  IN IF options = Null THEN Failed(h)
     ELSE
  Then(createAppErrorBuilder(h, ObjLit([code |-> code, type |-> Str("network")]), now),
       LAMBDA b :
  Bind(normalizeHttpMetadata(b.h, Field(bag, "metadata")), LAMBDA m :
  Bind(applyCommonOptions(m.h, b.state, "network", [metadata |-> m.v] @@ rest), LAMBDA r :
    buildAfter(IF SomeNotNull(enrichedMetadata) THEN withMetadataOf(r, enrichedMetadata)
               ELSE r, now))))

createValidationError(h, options, now) ==
  LET bag == Bag(h, options)
      code == Default(Field(bag, "code"), Str("VALIDATION_ERROR"))
      fields == Field(bag, "fields")
      schema == Default(Field(bag, "schema"), Null)
      rest == Rest(bag, {"code", "fields", "schema"})
  IN IF options = Null THEN Failed(h)
     ELSE
  Then(createAppErrorBuilder(h, ObjLit([code |-> code, type |-> Str("validation")]), now),
       LAMBDA b :
  Bind(applyCommonOptions(b.h, b.state, "validation", rest), LAMBDA r :
  Bind(IF IsArray(r.h, fields) THEN [h |-> r.h, v |-> fields]
       ELSE IF fields = Undefined THEN New(r.h, ArrayOf(<<>>))
       ELSE New(r.h, ArrayOf(<<fields>>)), LAMBDA list :
    buildAfter(IF ElemsOf(list.h, list.v) # <<>> \/ ~IsNullish(schema)
               THEN withMetadataOf([r EXCEPT !.h = list.h],
                                   [fields |-> list.v, schema |-> schema])
               ELSE r, now))))

\* The five factories that take three fields of their own: each field
\* defaults to null and the three are recorded when one of them is set.
createCategoryError(h, options, now, defaultCode, type, own) ==
  LET bag == Bag(h, options)
      code == Default(Field(bag, "code"), Str(defaultCode))
      rest == Rest(bag, {"code"} \cup own)
      metadata == [k \in own |-> Default(Field(bag, k), Null)]
  IN IF options = Null THEN Failed(h)
     ELSE
  Then(createAppErrorBuilder(h, ObjLit([code |-> code, type |-> Str(type)]), now),
       LAMBDA b :
  Bind(applyCommonOptions(b.h, b.state, type, rest), LAMBDA r :
    buildAfter(IF SomeNotNull(metadata) THEN withMetadataOf(r, metadata) ELSE r, now)))

createMappingError(h, options, now) ==
  createCategoryError(h, options, now, "MAPPING_ERROR", "mapping",
                      {"source", "target", "stage"})

createPermissionError(h, options, now) ==
  createCategoryError(h, options, now, "PERMISSION_DENIED", "permission",
                      {"resource", "action", "requiredRoles"})

createComponentError(h, options, now) ==
  createCategoryError(h, options, now, "COMPONENT_ERROR", "component",
                      {"componentName", "propsSnapshot", "hook"})

createEnvironmentError(h, options, now) ==
  createCategoryError(h, options, now, "ENVIRONMENT_ERROR", "environment",
                      {"variable", "expected", "received"})

createFeatureError(h, options, now) ==
  createCategoryError(h, options, now, "FEATURE_UNAVAILABLE", "feature",
                      {"feature", "flag", "requiredVersion"})

createSystemError(h, options, now) ==
  LET bag == Bag(h, options)
      code == Default(Field(bag, "code"), Str("SYSTEM_ERROR"))
      subsystem == Default(Field(bag, "subsystem"), Null)
      rest == Rest(bag, {"code", "subsystem"})
  IN IF options = Null THEN Failed(h)
     ELSE
  Then(createAppErrorBuilder(h, ObjLit([code |-> code, type |-> Str("system")]), now),
       LAMBDA b :
  Bind(applyCommonOptions(b.h, b.state, "system", rest), LAMBDA r :
    buildAfter(IF Truthy(subsystem) THEN withMetadataOf(r, [subsystem |-> subsystem])
               ELSE r, now)))

\* The messages and the reason createUnknownError passes on.
unknownMessages(h, rest, fallbackMessage, originalError) ==
  LET fallback == Coalesce(fallbackMessage, OptGet(h, originalError, "message"))
      defaults == DEFAULT_TYPE_MESSAGES("unknown")
  IN IF Truthy(Field(rest, "messages"))
     THEN [h |-> h, messages |-> Field(rest, "messages"), reason |-> Field(rest, "reason")]
     ELSE IF Truthy(fallback)
     THEN Bind(ensureLocalizedText(h, fallback, defaults.p.user), LAMBDA u :
          Bind(ensureLocalizedText(u.h, fallback, defaults.p.original), LAMBDA o :
          Bind(New(o.h, PlainObject([user |-> u.v, original |-> o.v])), LAMBDA m :
            [h |-> m.h, messages |-> m.v,
             reason |-> Coalesce(Field(rest, "reason"),
                                 IF fallback.t = "string" THEN fallback ELSE Undefined)])))
     ELSE [h |-> h, messages |-> defaults, reason |-> Field(rest, "reason")]

createUnknownError(h, options, now) ==
  LET bag == Bag(h, options)
      code == Default(Field(bag, "code"), Str("UNKNOWN_ERROR"))
      originalError == Field(bag, "originalError")
      rest == Rest(bag, {"code", "originalError", "fallbackMessage"})
  IN IF options = Null THEN Failed(h)
     ELSE
  Then(createAppErrorBuilder(h, ObjLit([code |-> code, type |-> Str("unknown")]), now),
       LAMBDA b :
  Bind(unknownMessages(b.h, rest, Field(bag, "fallbackMessage"), originalError), LAMBDA u :
  Bind(applyCommonOptions(u.h, b.state, "unknown",
         [messages |-> u.messages, reason |-> u.reason, originalError |-> originalError]
         @@ rest), LAMBDA r :
    buildAfter(withMetadataOf(r,
        [originalName |->
           Coalesce(OptGet(r.h, Field(rest, "metadata"), "originalName"),
                    OptGet(r.h, originalError, "name"))]), now))))

\* const isAppError = (value) => value instanceof AppError, where AppError
\* is the class factories.js imports from app-error.js.
isAppError(h, value) == IsAppError(h, value)

-----------------------------------------------------------------------------
(* plugins/vue.js.  The configuration is kept as the literals the host     *)
(* wrote; an event is a record of the values the platform put in it.       *)

\* A function of the host, by name.
Function(name) == [t |-> "function", s |-> name]

CaptureSites ==
  {"unhandledRejection", "rejectionHandled", "globalError", "resourceError", "vueError"}

\* { ...value }: the properties of an object; null, undefined and a boolean
\* spread to nothing.
Spread(l) == IF l.t = "object" THEN l.p ELSE EmptyProps

\* { ...base, ...over }
Over(base, over) ==
  [k \in DOMAIN base \cup DOMAIN over |-> IF k \in DOMAIN over THEN over[k] ELSE base[k]]

toBooleanMap(value, defaults) ==
  IF value.t = "boolean" THEN [k \in DOMAIN defaults |-> value]
  ELSE Over(defaults, Spread(Coalesce(value, ObjLit(EmptyProps))))

\* errorHandlerPlugin(options = {}): what the closure holds.
errorHandlerPlugin(optionsArg) ==
  LET options == Default(optionsArg, ObjLit(EmptyProps))
      option(key) == IF key \in DOMAIN options.p THEN options.p[key] ELSE Undefined
  IN [created |-> TRUE,
      onError |-> Default(option("onError"), Function("defaultOnError")),
      messageOverrides |-> Default(option("messages"), ObjLit(EmptyProps)),
      capture |-> Over([k \in CaptureSites |-> Bool(TRUE)],
                       Spread(Default(option("capture"), ObjLit(EmptyProps)))),
      preventDefault |->
        toBooleanMap(option("preventDefault"),
                     [unhandledRejection |-> Bool(TRUE), rejectionHandled |-> Bool(FALSE),
                      globalError |-> Bool(TRUE), resourceError |-> Bool(FALSE),
                      vueError |-> Bool(FALSE)])]

\* const getMessages = (key) => messageOverrides?.[key]
getMessages(self, key) ==
  IF self.messageOverrides.t = "object" /\ key \in DOMAIN self.messageOverrides.p
  THEN self.messageOverrides.p[key] ELSE Undefined

\* A call the plugin makes into the host.
Callback(fn, args) == [fn |-> fn, args |-> args]

\* What running a listener comes to: the heap, the calls it made into the
\* host, and whether it threw.
Ran(h, made) == [h |-> h, calls |-> made, threw |-> FALSE]
Raised(h, made) == [h |-> h, calls |-> made, threw |-> TRUE]

\* handleUnknownError(payload): AppError.unknown(payload), then
\* onError(appError).  AppError is the class imported from app-error.js;
\* calling its `unknown` throws a TypeError when that is not a function.
handleUnknownError(h, self, static, payload, now) ==
  IF static.t # "function" THEN Raised(h, <<>>)
  ELSE Bind(createUnknownError(h, payload, now), LAMBDA r :
         IF r.threw THEN Raised(r.h, <<>>)
         ELSE Ran(r.h, <<Callback(self.onError.s, <<r.v>>)>>))

\* if (preventDefault.site) event.preventDefault?.(), after the listener ran.
thenPreventDefault(r, self, site) ==
  IF ~r.threw /\ Truthy(self.preventDefault[site])
  THEN [r EXCEPT !.calls = Append(@, Callback("preventDefault", <<>>))]
  ELSE r

\* value instanceof Error ? value : undefined
ErrorOrUndefined(h, value) == IF IsError(h, value) THEN value ELSE Undefined

\* causes: value ? [value] : undefined
CausesOf(h, present, value) ==
  IF present THEN New(h, ArrayOf(<<value>>)) ELSE [h |-> h, v |-> Undefined]

\* The payload { code, messages: getMessages(key), ...fields } and the call
\* of handleUnknownError with it.
handlePayload(h, self, static, code, key, fields, now) ==
  Bind(AllocLit(h, getMessages(self, key)), LAMBDA messages :
  Bind(New(messages.h,
           PlainObject([code |-> Str(code), messages |-> messages.v] @@ fields)),
       LAMBDA payload :
    handleUnknownError(payload.h, self, static, payload.v, now)))

\* The listeners of "unhandledrejection" and "rejectionhandled".
rejectionListener(h, self, static, site, event, now) ==
  LET originalError == ErrorOrUndefined(h, event.reason)
      reason == Coalesce(OptGet(h, originalError, "message"),
                         IF event.reason.t = "string" THEN event.reason ELSE Undefined)
      common == [scope |-> Str("global"), source |-> Str("window"),
                 eventType |-> event.type, isTrusted |-> Coalesce(event.isTrusted, Null)]
      metadata == IF site = "unhandledRejection"
                  THEN common @@ [stack |-> Coalesce(OptGet(h, originalError, "stack"), Null)]
                  ELSE common
  IN Bind(New(h, PlainObject(metadata)), LAMBDA m :
     Bind(CausesOf(m.h, ~IsNullish(event.reason), event.reason), LAMBDA c :
       thenPreventDefault(
         handlePayload(c.h, self, static,
                       IF site = "unhandledRejection" THEN "UNHANDLED_REJECTION"
                       ELSE "REJECTION_HANDLED",
                       site,
                       [originalError |-> originalError, reason |-> reason,
                        metadata |-> m.v, causes |-> c.v], now),
         self, site)))

\* The window object, which is no element.
Window == [t |-> "window"]

ResourceTags == {Str("IMG"), Str("SCRIPT"), Str("LINK"), Str("VIDEO"), Str("AUDIO")}

\* a || b
Either(a, b) == IF Truthy(a) THEN a ELSE b

\* The capturing listener of "error": resource load failures.
resourceErrorListener(h, self, static, event, now) ==
  LET target == event.target
      isResource == /\ Truthy(target)
                    /\ target # Window
                    /\ HasKey(h, target, "tagName")
                    /\ Get(h, target, "tagName") \in ResourceTags
      descriptor == IF Get(h, target, "tagName") = Str("IMG")
                    THEN Either(Get(h, target, "currentSrc"), Get(h, target, "src"))
                    ELSE Either(Get(h, target, "src"), Get(h, target, "href"))
      originalError == ErrorOrUndefined(h, event.error)
  IN IF ~isResource THEN Ran(h, <<>>)
     ELSE
  Bind(New(h, PlainObject([scope |-> Str("global"), source |-> Str("resource"),
                           tagName |-> Get(h, target, "tagName"),
                           descriptor |-> Coalesce(descriptor, Null)])), LAMBDA m :
  Bind(CausesOf(m.h, Truthy(originalError), originalError), LAMBDA c :
    thenPreventDefault(
      handlePayload(c.h, self, static, "RESOURCE_LOAD_ERROR", "resourceLoad",
                    [originalError |-> originalError,
                     reason |-> OptGet(h, originalError, "message"),
                     metadata |-> m.v, causes |-> c.v], now),
      self, "resourceError")))

\* The second listener of "error": uncaught exceptions.
globalErrorListener(h, self, static, event, now) ==
  LET originalError == ErrorOrUndefined(h, event.error)
      reason == Coalesce(OptGet(h, originalError, "message"),
                         IF event.message.t = "string" THEN event.message ELSE Undefined)
  IN IF /\ Truthy(self.capture.resourceError)
        /\ Truthy(event.target)
        /\ event.target # Window
        /\ HasKey(h, event.target, "tagName")
     THEN Ran(h, <<>>)
     ELSE
  Bind(New(h, PlainObject([scope |-> Str("global"), source |-> Str("window"),
                           filename |-> Coalesce(event.filename, Null),
                           lineno |-> Coalesce(event.lineno, Null),
                           colno |-> Coalesce(event.colno, Null)])), LAMBDA m :
  Bind(CausesOf(m.h, Truthy(originalError), originalError), LAMBDA c :
    thenPreventDefault(
      handlePayload(c.h, self, static, "UNCAUGHT_EXCEPTION", "uncaughtException",
                    [originalError |-> originalError, reason |-> reason,
                     metadata |-> m.v, causes |-> c.v], now),
      self, "globalError")))

\* The wrapper install puts in app.config.errorHandler, called with
\* (error, instance, info); previousHandler is what was there before.
vueErrorHandler(h, self, static, previousHandler, error, instance, info, now) ==
  LET originalError == ErrorOrUndefined(h, error)
      type == OptGet(h, instance, "type")
  IN
  Bind(New(h, PlainObject([scope |-> Str("vue"), info |-> Coalesce(info, Null),
                           componentName |->
                             Coalesce(OptGet(h, type, "name"),
                                      Coalesce(OptGet(h, type, "__name"), Null))])),
       LAMBDA m :
  Bind(New(m.h, PlainObject([name |-> Str("vue"), method |-> Coalesce(info, Null),
                             operation |-> Str("component-error")])), LAMBDA s :
  Bind(CausesOf(s.h, Truthy(originalError), originalError), LAMBDA c :
  Bind(handlePayload(c.h, self, static, "VUE_COMPONENT_ERROR", "vueError",
                     [originalError |-> originalError,
                      reason |-> OptGet(h, originalError, "message"),
                      metadata |-> m.v, service |-> s.v, causes |-> c.v], now),
       LAMBDA r :
    IF ~r.threw /\ previousHandler.t = "function"
    THEN [r EXCEPT !.calls =
            Append(@, Callback(previousHandler.s, <<error, instance, info>>))]
    ELSE r))))

\* A listener on window: the event type, the capture site it belongs to, and
\* whether it was registered for the capture phase.
Listener(type, site, useCapture) == [type |-> type, site |-> site, useCapture |-> useCapture]

\* The wrapper in app.config.errorHandler, with the handler it replaced.
Wrapper(previousHandler) == [t |-> "wrapper", previousHandler |-> previousHandler]

\* install(app): the listeners added to window, in order, and the value of
\* app.config.errorHandler afterwards.
install(self, handler, isBrowser) ==
  [listeners |->
     (IF Truthy(self.capture.unhandledRejection) /\ isBrowser
      THEN <<Listener("unhandledrejection", "unhandledRejection", FALSE)>> ELSE <<>>)
     \o (IF Truthy(self.capture.rejectionHandled) /\ isBrowser
         THEN <<Listener("rejectionhandled", "rejectionHandled", FALSE)>> ELSE <<>>)
     \o (IF isBrowser /\ Truthy(self.capture.resourceError)
         THEN <<Listener("error", "resourceError", TRUE)>> ELSE <<>>)
     \o (IF Truthy(self.capture.globalError) /\ isBrowser
         THEN <<Listener("error", "globalError", FALSE)>> ELSE <<>>),
   errorHandler |-> IF self.capture.vueError # Bool(FALSE) THEN Wrapper(handler)
                    ELSE handler]

-----------------------------------------------------------------------------
(* The calling program.  Every call it makes is appended to log with the   *)
(* argument values, the literals they were evaluated from, the value       *)
(* returned, that value's structure at the time of return, and whether the *)
(* call threw.                                                             *)

NoBuilder == [live |-> FALSE]
NoPlugin == [created |-> FALSE]

\* The host before the plugin is created: no listener on window, the error
\* handler the application configured (handler), and no static `unknown` on
\* the class app-error.js exports, which declares none.
HostAtStart(handler) ==
  /\ plugin = NoPlugin
  /\ listeners = <<>>
  /\ errorHandler = handler
  /\ unknown = Undefined
  /\ callbacks = <<>>
NoInput == [fn |-> "none", args |-> <<>>]

Entry(op, args, lits, out, outView, threw) ==
  [op |-> op, args |-> args, lits |-> lits, out |-> out, outView |-> outView,
   threw |-> threw]

\* The structure of a returned value; an AppError is opened one level (the
\* AppErrors among its causes stay references).
Snapshot(h, v) ==
  IF IsAppError(h, v)
  THEN [t |-> "apperror", p |-> [k \in DOMAIN h[v.a].props |-> View(h, h[v.a].props[k])]]
  ELSE View(h, v)

Returned(h, op, args, lits, out) == Entry(op, args, lits, out, Snapshot(h, out), FALSE)
Threw(op, args, lits) == Entry(op, args, lits, Undefined, Undefined, TRUE)

\* The clock, in seconds: every call the program makes takes one.
Now == 1762300800 + Len(log)

RefsIn(vals) == {vals[i].a : i \in {j \in DOMAIN vals : IsRef(vals[j])}}

\* The cells a cell refers to directly.
Children(h, a) ==
  {h[a].props[k].a : k \in {x \in DOMAIN h[a].props : IsRef(h[a].props[x])}}
  \cup {h[a].elems[i].a : i \in {j \in 1..Len(h[a].elems) : IsRef(h[a].elems[j])}}

\* The cells reachable from a set of cells.
RECURSIVE Reach(_, _, _)
Reach(h, frontier, seen) ==
  IF frontier = {} THEN seen
  ELSE LET next == UNION {Children(h, a) : a \in frontier} \ (seen \cup frontier)
       IN Reach(h, next, seen \cup frontier)

Reachable(h, from) == Reach(h, from, {})

Count(op) == Cardinality({i \in 1..Len(log) : log[i].op = op})
Calls == Len(log) - Count("write")

\* The arguments of a pure-function run, evaluated into the heap in order.
RECURSIVE AllocAll(_, _, _)
AllocAll(h, lits, done) ==
  IF lits = <<>> THEN [h |-> h, vals |-> done]
  ELSE Bind(AllocLit(h, Head(lits)), LAMBDA r :
         AllocAll(r.h, Tail(lits), Append(done, r.v)))

\* What a program can do to an object it holds: assign or delete a property,
\* or push, replace or pop an element of an array.
Mutations(c) ==
  CASE c.kind = "array" ->
         {[m |-> "push"]}
         \cup (IF c.elems = <<>> THEN {} ELSE {[m |-> "pop"], [m |-> "setAt", i |-> 1]})
    [] c.kind = "date" -> {}
    [] OTHER ->
         {[m |-> "set", k |-> k] : k \in DOMAIN c.props \cup {"extra"}}
         \cup {[m |-> "delete", k |-> k] : k \in DOMAIN c.props}

Mutated == Str("mutated")

Apply(c, mut) ==
  CASE mut.m = "push" -> [c EXCEPT !.elems = Append(@, Mutated)]
    [] mut.m = "pop" -> [c EXCEPT !.elems = SubSeq(@, 1, Len(@) - 1)]
    [] mut.m = "setAt" -> [c EXCEPT !.elems[mut.i] = Mutated]
    [] mut.m = "set" ->
         [c EXCEPT !.props = [k \in DOMAIN @ \cup {mut.k} |->
                                IF k = mut.k THEN Mutated ELSE @[k]]]
    [] mut.m = "delete" -> [c EXCEPT !.props = [k \in DOMAIN @ \ {mut.k} |-> @[k]]]

\* Bounds of the calling program.
MaxWrites == 1

\* The program writes to an object it can reach.  On a frozen object the
\* write has no effect (it is ignored, or throws in strict mode).
CallerWrite ==
  /\ Count("write") < MaxWrites
  /\ \E a \in Reachable(heap, roots) :
       \E mut \in Mutations(heap[a]) :
         LET applied == ~heap[a].frozen
         IN /\ heap' = IF applied THEN [heap EXCEPT ![a] = Apply(@, mut)] ELSE heap
            /\ log' = Append(log, Entry("write", <<Ref(a)>>, <<>>, Bool(applied),
                                        Bool(applied), FALSE))
  /\ UNCHANGED <<roots, builder, errors, input, host>>

-----------------------------------------------------------------------------
(* The two utilities as pure functions: the arguments are drawn in the     *)
(* initial state, one action evaluates them and applies the function, and  *)
(* the program may then write to what it holds.                            *)

N1 == Num(1)
N2 == Num(2)
N3 == Num(3)
O(k, v) == ObjLit(k :> v)
OO(k1, v1, k2, v2) == ObjLit((k1 :> v1) @@ (k2 :> v2))
Empty == ObjLit(EmptyProps)

MergeTargets ==
  { Empty, O("a", N1), O("a", O("x", N1)), O("a", ArrLit(<<N1, N2>>)),
    OO("a", O("x", N1), "b", N2), O("a", O("x", O("p", N1))), O("b", O("y", N2)),
    Str("prim"), Null, Undefined, ArrLit(<<N1>>) }

MergeSources ==
  { Empty, O("a", N2), O("a", O("y", N2)), O("a", ArrLit(<<N3>>)),
    O("a", O("x", O("q", N2))), O("c", O("z", N1)), O("a", ArrLit(<<O("m", N1)>>)),
    OO("a", O("x", N2), "c", ArrLit(<<N1>>)), O("a", Undefined),
    Str("value"), Null, ArrLit(<<O("m", N1)>>) }

LocalizeValues ==
  { Undefined, Null, Str(""), Str("s"), Empty, O("fa", Str("f")), O("en", Str("e")),
    OO("fa", Str("f"), "en", Str("e")), OO("fa", Null, "en", Str("e")),
    O("fa", Str("")), Num(5), Bool(TRUE), ArrLit(<<Str("s")>>) }

LocalizeFallbacks ==
  { Undefined, Null, Empty, O("fa", Str("F")), O("en", Str("E")),
    OO("fa", Str("F"), "en", Str("E")) }

PureInputs ==
  {[fn |-> "deepMerge", args |-> <<t, s>>] : t \in MergeTargets, s \in MergeSources}
  \cup {[fn |-> "ensureLocalizedText", args |-> <<v, f>>] :
          v \in LocalizeValues, f \in LocalizeFallbacks}

InitPure ==
  /\ heap = <<>>
  /\ roots = {}
  /\ builder = NoBuilder
  /\ errors = <<>>
  /\ log = <<>>
  /\ input \in PureInputs
  /\ HostAtStart(Undefined)

\* const merged = deepMerge(target, source)
CallDeepMerge ==
  /\ input.fn = "deepMerge"
  /\ log = <<>>
  /\ LET a == AllocAll(heap, input.args, <<>>)
         r == deepMerge(a.h, a.vals[1], a.vals[2])
     IN /\ heap' = r.h
        /\ roots' = roots \cup RefsIn(a.vals) \cup RefsIn(<<r.v>>)
        /\ log' = Append(log, Returned(r.h, "deepMerge", a.vals, input.args, r.v))
  /\ UNCHANGED <<builder, errors, input, host>>

\* const text = ensureLocalizedText(value, fallback)
CallEnsureLocalizedText ==
  /\ input.fn = "ensureLocalizedText"
  /\ log = <<>>
  /\ LET a == AllocAll(heap, input.args, <<>>)
         r == ensureLocalizedText(a.h, a.vals[1], a.vals[2])
     IN /\ heap' = r.h
        /\ roots' = roots \cup RefsIn(a.vals) \cup RefsIn(<<r.v>>)
        /\ log' = Append(log, Returned(r.h, "ensureLocalizedText", a.vals, input.args, r.v))
  /\ UNCHANGED <<builder, errors, input, host>>

\* const again = ensureLocalizedText(text, fallback2): the pair the first
\* call returned is normalized once more, with any fallback.
CallEnsureLocalizedTextAgain ==
  /\ input.fn = "ensureLocalizedText"
  /\ Count("ensureLocalizedText") = 1
  /\ \E fallback2 \in LocalizeFallbacks :
       \E a \in {AllocLit(heap, fallback2)} :
         \E r \in {ensureLocalizedText(a.h, log[1].out, a.v)} :
           /\ heap' = r.h
           /\ roots' = roots \cup RefsIn(<<a.v, r.v>>)
           /\ log' = Append(log, Returned(r.h, "ensureLocalizedText", <<log[1].out, a.v>>,
                                          <<View(heap, log[1].out), fallback2>>, r.v))
  /\ UNCHANGED <<builder, errors, input, host>>

NextPure ==
  CallDeepMerge \/ CallEnsureLocalizedText \/ CallEnsureLocalizedTextAgain \/ CallerWrite

SpecPure == InitPure /\ [][NextPure]_vars

-----------------------------------------------------------------------------
(* The programs that create errors.  input names the scenario the program  *)
(* follows: in a free scenario it draws each call's argument from the       *)
(* scenario's set until its budget of calls is spent; in a script it makes *)
(* the calls of input.args in order.                                       *)

Options(p) == ObjLit(p)
Base == [code |-> Str("CODE"), type |-> Str("network")]
With(k, v) == Options(Base @@ (k :> v))

EnOnly(text) == O("en", Str(text))
FaOnly(text) == O("fa", Str(text))

Previous == IF errors = <<>> THEN Null ELSE Ref(errors[Len(errors)])

\* The option bags of direct construction; prev is the AppError built last,
\* or null when there is none yet.
CtorInputs(prev) ==
  { With("messages", Str("oops")),
    Options([code |-> Str("NO_TYPE"), type |-> Str("unknown-type"),
             messages |-> OO("user", EnOnly("Message"), "original", EnOnly("Message"))]),
    With("messages", O("original", EnOnly("Original"))),
    With("messages", O("user", FaOnly("User"))),
    With("messages", Empty),
    With("messages", Null),
    With("messages", Num(42)),
    With("messages", ArrLit(<<Str("listed")>>)),
    Options([code |-> Str("LEVEL"), type |-> Str("validation"), level |-> Str("fatal")]),
    With("causes", ArrLit(<<prev, ErrLit("TypeError", "e"), O("message", Str("c")), Null>>)),
    With("causes", ArrLit(<<O("message", EnOnly("partial")), Undefined,
                            OO("message", Num(7), "code", Str("E7"))>>)),
    With("causes", O("message", Str("ignored"))),
    With("causes", ArrLit(<<Num(42), Num(0), Str(""), Bool(FALSE), Str("text"), Null,
                            Undefined, O("code", Str("E"))>>)),
    With("breadcrumbs",
         ArrLit(<<Str("simple"), O("category", Str("skip")),
                  OO("message", FaOnly("msg"), "data", O("value", Num(42)))>>)),
    With("breadcrumbs", Null),
    With("breadcrumbs", O("message", Str("single"))),
    With("breadcrumbs", ArrLit(<<O("category", Str("x")), O("message", Str("ok"))>>)),
    With("breadcrumbs",
         ArrLit(<<OO("category", Str("skip"), "message", Null),
                  OO("message", FaOnly("only"), "timestamp", Str("invalid-date")),
                  Num(42), Bool(FALSE), Str(""),
                  OO("message", Str("t"), "timestamp", Str("2023-01-01T00:00:00Z")),
                  OO("message", Str("d"), "timestamp", DateLit(Num(1672531200)))>>)),
    With("breadcrumbs",
         ArrLit(<<OO("message", Str("n"), "timestamp", Num(1000)),
                  OO("message", Str("z"), "timestamp", Num(0))>>)),
    Options(Base @@ [metadata |-> OO("traceId", Str("123"), "nested", O("id", N1)),
                     service |-> OO("name", Str("svc"), "args", ArrLit(<<Str("/path")>>)),
                     descriptions |-> ArrLit(<<Str("first"), Str("second")>>)]),
    Options(Base @@ [originalError |-> ErrLit("Error", "boom"),
                     timestamp |-> Str("2024-05-10T13:00:00Z")]),
    With("timestamp", Str("not-a-date")),
    Options([code |-> Str("LEVEL"), type |-> Str("feature"), level |-> Null]),
    Options([code |-> Str("LEVEL"), type |-> Str("environment")]),
    Options([code |-> Str("LEVEL"), type |-> Str("custom"), level |-> Str("loud")]),
    Options([code |-> Str("LEVEL"), type |-> Str("toString")]) }

CodeAndType(code, type) == ObjLit([code |-> code, type |-> type])

\* The arguments of the builder's validation scenario.
BuilderInputs(op) ==
  CASE op = "createAppErrorBuilder" ->
         { CodeAndType(Str("CODE"), Str("network")),
           CodeAndType(Str(" PADDED "), Str("validation")),
           CodeAndType(Str(""), Str("network")),
           CodeAndType(Str("   "), Str("network")),
           CodeAndType(Num(42), Str("network")),
           CodeAndType(Str("X"), Str("not-a-real-type")),
           O("code", Str("X")) }
    [] op = "withMessages" ->
         { Str("oops"), O("original", EnOnly("Original")), O("user", FaOnly("User")),
           Undefined }
    [] op = "withReason" ->
         { Num(42), Bool(FALSE), Str("because"), Null, Undefined }
    [] op = "withLevel" -> { Str("bogus"), Str("fatal"), Undefined }
    [] op = "withService" ->
         { OO("name", Str("svc"), "args", ArrLit(<<Str("/path")>>)), Undefined }
    [] op = "withMetadata" ->
         { Null, O("a", O("x", N1)), Str("text"), Num(5), Undefined }
    [] op = "withDescriptions" -> { Str("one"), ArrLit(<<Str("a"), Str("b")>>), Null }
    [] op = "withBreadcrumbs" ->
         { ArrLit(<<Str("simple")>>), O("message", Str("single")), Undefined }
    [] op = "withCauses" ->
         { ArrLit(<<ErrLit("TypeError", "e"), O("message", Str("c"))>>),
           ErrLit("Error", "single"), O("message", Str("c")), Null }
    [] op = "withOriginalError" ->
         { O("message", Str("x")), Str("text"), ErrLit("Error", "boom"), Null, Undefined }
    [] op = "withTimestamp" ->
         { Str("not-a-date"), Empty, Undefined, Null, Str("2024-01-01T00:00:00Z"),
           DateLit(Num(1672531200)), DateLit(NaN) }
    [] op = "build" -> { Undefined }
    [] op = "new AppError" -> { With("causes", O("message", Str("c"))) }
    [] OTHER -> {}

\* The arguments of the metadata scenario: one builder, withMetadata calls.
MetadataInputs(op) ==
  CASE op = "createAppErrorBuilder" -> { CodeAndType(Str("CODE"), Str("network")) }
    [] op = "withMetadata" ->
         { O("a", O("x", N1)), O("a", O("y", N2)), O("tags", ArrLit(<<Str("t1")>>)),
           O("tags", ArrLit(<<Str("t2")>>)), OO("a", N3, "b", O("z", N1)), Empty,
           Undefined, ArrLit(<<N1>>) }
    [] op = "build" -> { Undefined }
    [] OTHER -> {}

\* The arguments of the original-error scenario: one builder,
\* withOriginalError calls.
OriginalErrorInputs(op) ==
  CASE op = "createAppErrorBuilder" -> { CodeAndType(Str("CODE"), Str("network")) }
    [] op = "withOriginalError" ->
         { ErrLit("Error", "boom"), ErrLit("TypeError", "other"), Undefined, Null,
           O("message", Str("x")) }
    [] op = "build" -> { Undefined }
    [] OTHER -> {}

\* The arguments of the reuse scenario: one builder, every setter with a
\* value it stores, some with a value it rejects, and builds in between.
ReuseInputs(op) ==
  CASE op = "createAppErrorBuilder" -> { CodeAndType(Str("CODE"), Str("network")) }
    [] op = "withMessages" -> { Str("oops") }
    [] op = "withReason" -> { Str("because"), Num(42) }
    [] op = "withLevel" -> { Str("fatal"), Str("bogus") }
    [] op = "withService" -> { O("name", Str("n")), O("method", Str("m")), Null }
    [] op = "withMetadata" -> { O("a", O("x", N1)), O("a", O("y", N2)), Str("text") }
    [] op = "withDescriptions" -> { Str("one"), ArrLit(<<Str("a"), Str("b")>>) }
    [] op = "withBreadcrumbs" ->
         { ArrLit(<<OO("message", Str("first"), "timestamp", Num(1000))>>),
           Str("second") }
    [] op = "withCauses" -> { ArrLit(<<ErrLit("TypeError", "e")>>), O("message", Str("c")) }
    [] op = "withOriginalError" -> { ErrLit("Error", "boom"), Str("text") }
    [] op = "withTimestamp" -> { Str("2024-01-01T00:00:00Z"), Str("not-a-date") }
    [] op = "build" -> { Undefined }
    [] OTHER -> {}

\* An error the program holds, passed on as an argument: the k-th returned.
HeldError(k) == [t |-> "held", k |-> k]

\* The arguments of the entry-point scenario: the exported class, its static
\* shortcuts, the builder, and the values isAppError is asked about.
EntryInputs(op) ==
  CASE op = "new AppError" -> { Options(Base), With("messages", Str("Direct error")) }
    [] op = "createAppErrorBuilder" -> { CodeAndType(Str("MY_ERROR"), Str("system")) }
    [] op = "build" -> { Undefined }
    [] op \in ERROR_TYPES -> { Undefined }
    [] op = "isAppError" ->
         { Null, Undefined, Str("AppError"), ErrLit("AppError", "native"),
           ObjLit([name |-> Str("AppError"), code |-> Str("CODE"),
                   type |-> Str("network")]) }
         \cup {HeldError(k) : k \in 1..Len(errors)}
    [] OTHER -> {}

\* The arguments of the capture scenario: the options of the plugin, whether
\* there is a window, and the events the platform delivers.
CaptureInputs(op) ==
  CASE op = "errorHandlerPlugin" ->
         { O("onError", Function("onError")),
           ObjLit([onError |-> Function("onError"),
                   messages |-> ObjLit([unhandledRejection |-> Str("Unhandled rejection"),
                                        rejectionHandled |-> Str("Rejection handled"),
                                        resourceLoad |-> Str("Resource failed"),
                                        uncaughtException |-> Str("Uncaught exception"),
                                        vueError |-> Str("Vue component error")]),
                   preventDefault |-> Bool(TRUE)]),
           OO("onError", Function("onError"),
              "capture", ObjLit([k \in CaptureSites |-> Bool(FALSE)])),
           OO("onError", Function("onError"), "capture", O("vueError", Bool(FALSE))),
           OO("onError", Function("onError"), "capture", O("resourceError", Bool(FALSE))),
           OO("onError", Function("onError"), "capture", O("globalError", Bool(FALSE))),
           OO("onError", Function("onError"),
              "preventDefault", OO("globalError", Bool(FALSE), "resourceError", Bool(TRUE))) }
    [] op = "install" -> { Bool(TRUE), Bool(FALSE) }
    [] op = "assignUnknown" -> { Function("createUnknownError") }
    [] op = "unhandledrejection" ->
         { ObjLit([type |-> Str(op), reason |-> ErrLit("Error", "promise boom"),
                   isTrusted |-> Bool(TRUE)]),
           OO("type", Str(op), "reason", Str("oops")),
           OO("type", Str(op), "reason", Null) }
    [] op = "rejectionhandled" ->
         { OO("type", Str(op), "reason", Str("handled")),
           OO("type", Str(op), "reason", ErrLit("TypeError", "late")) }
    [] op = "error" ->
         { ObjLit([target |-> Window, error |-> ErrLit("Error", "boom"),
                   message |-> Str("boom"), filename |-> Str("file.js")]),
           OO("target", Window, "message", Str("Script error.")),
           O("target", Null),
           O("target", OO("tagName", Str("IMG"), "currentSrc", Str("image.png"))),
           O("target", OO("tagName", Str("SCRIPT"), "src", Str("test.js"))),
           OO("target", OO("tagName", Str("LINK"), "href", Str("style.css")),
              "bubbles", Bool(TRUE)),
           O("target", OO("tagName", Str("SOURCE"), "src", Str("clip.webm"))),
           OO("target", O("tagName", Str("DIV")), "bubbles", Bool(TRUE)) }
    [] op = "componentError" ->
         { ObjLit([error |-> ErrLit("Error", "component failed"),
                   instance |-> O("type", O("name", Str("MyComponent"))),
                   info |-> Str("render")]),
           O("error", Str("text")) }
    [] OTHER -> {}

\* The option bags every factory is called with.
CommonOptions ==
  { Undefined,
    Empty,
    O("messages", Str("text")),
    O("messages", O("original", EnOnly("X"))),
    O("messages", O("user", FaOnly("U"))),
    O("messages", OO("user", EnOnly("U"), "original", EnOnly("O"))),
    ObjLit([code |-> Str("CUSTOM"), reason |-> Str("r"), level |-> Str("fatal")]),
    ObjLit([metadata |-> O("traceId", Str("123")),
            descriptions |-> ArrLit(<<Str("d")>>),
            service |-> O("name", Str("svc"))]),
    ObjLit([causes |-> ArrLit(<<ErrLit("TypeError", "e")>>),
            breadcrumbs |-> ArrLit(<<Str("b")>>),
            originalError |-> ErrLit("Error", "boom"),
            timestamp |-> Str("2024-01-01T00:00:00Z")]),
    O("code", Str("")),
    O("level", Str("bogus")),
    O("timestamp", DateLit(NaN)),
    O("timestamp", Str("not-a-date")),
    OO("type", Str("custom"), "messages", Empty) }

\* The option bags of one factory: the common ones and those with the
\* factory's own fields.
FactoryInputs(name) ==
  CommonOptions \cup
  CASE name = "network" ->
         { ObjLit([metadata |-> OO("url", Str("/x"), "status", Num(500)),
                   retryCount |-> N2, isOffline |-> Bool(TRUE)]),
           O("isOffline", Null),
           O("metadata", Str("text")) }
    [] name = "validation" ->
         { OO("fields", ArrLit(<<Str("email")>>), "schema", Str("S")),
           O("fields", Str("single")) }
    [] name = "mapping" ->
         { ObjLit([source |-> Str("api"), target |-> Str("model"), stage |-> Str("parse")]),
           O("source", Null) }
    [] name = "permission" ->
         { ObjLit([resource |-> Str("doc"), action |-> Str("edit"),
                   requiredRoles |-> ArrLit(<<Str("admin")>>)]) }
    [] name = "component" ->
         { ObjLit([componentName |-> Str("Widget"), propsSnapshot |-> O("id", N1),
                   hook |-> Str("mounted")]) }
    [] name = "environment" ->
         { ObjLit([variable |-> Str("API_URL"), expected |-> Str("url"),
                   received |-> Undefined]) }
    [] name = "system" -> { O("subsystem", Str("db")), O("subsystem", Str("")) }
    [] name = "unknown" ->
         { O("originalError", ErrLit("TypeError", "boom")),
           O("fallbackMessage", Str("fb")),
           OO("originalError", O("message", Str("plain")), "reason", Str("given")),
           O("metadata", O("originalName", Str("Custom"))),
           OO("fallbackMessage", Str("fb"), "originalError", ErrLit("TypeError", "boom")),
           OO("fallbackMessage", Str(""), "originalError", ErrLit("Error", "boom")),
           O("fallbackMessage", O("en", Str("E"))),
           ObjLit([messages |-> Str("Override"), reason |-> Str("provided"),
                   fallbackMessage |-> Str("fb")]),
           OO("messages", Str("Override"), "originalError", ErrLit("Error", "boom")),
           OO("originalError", ErrLit("RangeError", "boom"),
              "metadata", O("originalName", Str("Custom"))) }
    [] name = "feature" ->
         { ObjLit([feature |-> Str("beta"), flag |-> Str("beta-flag"),
                   requiredVersion |-> Str("2.0")]) }
    [] OTHER -> {}

\* One call of a script.
Call(op, lit) == [op |-> op, lit |-> lit]

RichOptions ==
  Options(Base @@
    [messages |-> O("user", EnOnly("User")),
     descriptions |-> ArrLit(<<Str("first")>>),
     metadata |-> O("nested", O("id", N1)),
     service |-> OO("name", Str("svc"), "args", ArrLit(<<Str("/path")>>)),
     breadcrumbs |-> ArrLit(<<OO("message", Str("step"), "data", O("value", Num(42)))>>),
     causes |-> ArrLit(<<ErrLit("TypeError", "e"), O("message", Str("c"))>>)])

\* The scripts: direct construction, three builder sessions that between
\* them call every setter (one goes on using its builder after build()), and
\* one call of each factory.
Scripts ==
  { <<Call("new AppError", RichOptions)>>,
    <<Call("createAppErrorBuilder", CodeAndType(Str("CODE"), Str("network"))),
      Call("withMessages", O("original", EnOnly("Original"))),
      Call("withReason", Str("because")),
      Call("withLevel", Str("fatal")),
      Call("build", Undefined)>>,
    <<Call("createAppErrorBuilder", CodeAndType(Str("CODE"), Str("validation"))),
      Call("withService", OO("name", Str("svc"), "args", ArrLit(<<Str("/path")>>))),
      Call("withMetadata", O("nested", O("id", N1))),
      Call("withDescriptions", ArrLit(<<Str("first")>>)),
      Call("build", Undefined),
      Call("withMetadata", O("nested", O("more", N2))),
      Call("withDescriptions", ArrLit(<<Str("second")>>)),
      Call("build", Undefined)>>,
    <<Call("createAppErrorBuilder", CodeAndType(Str("CODE"), Str("system"))),
      Call("withBreadcrumbs", ArrLit(<<O("message", Str("step"))>>)),
      Call("withCauses", ArrLit(<<O("message", Str("c"))>>)),
      Call("withOriginalError", ErrLit("Error", "boom")),
      Call("withTimestamp", DateLit(Num(1672531200))),
      Call("build", Undefined)>>,
    <<Call("network", O("metadata", O("url", Str("/x"))))>>,
    <<Call("validation", O("fields", ArrLit(<<Str("email")>>)))>>,
    <<Call("mapping", O("descriptions", ArrLit(<<Str("d")>>)))>>,
    <<Call("permission", O("requiredRoles", ArrLit(<<Str("admin")>>)))>>,
    <<Call("component", O("propsSnapshot", O("id", N1)))>>,
    <<Call("environment", O("causes", ArrLit(<<O("message", Str("c"))>>)))>>,
    <<Call("system", O("breadcrumbs", ArrLit(<<Str("b")>>)))>>,
    <<Call("unknown", O("originalError", ErrLit("TypeError", "boom")))>>,
    <<Call("feature", O("messages", Str("text")))>> }

\* Bounds: the calls of one run of each free scenario.
MaxCtorCalls == 2
MaxBuilderCalls == 3
MaxMetadataCalls == 4
MaxFactoryCalls == 1
MaxOriginalErrorCalls == 6
MaxReuseCalls == 4
MaxEntryCalls == 2
MaxEvents == 2

Budget ==
  CASE input.fn = "construct" -> MaxCtorCalls
    [] input.fn = "builder" -> MaxBuilderCalls
    [] input.fn = "metadata" -> MaxMetadataCalls
    [] input.fn = "factory" -> MaxFactoryCalls
    [] input.fn = "originalError" -> MaxOriginalErrorCalls
    [] input.fn = "reuse" -> MaxReuseCalls
    [] input.fn = "entry" -> MaxEntryCalls
    [] input.fn = "capture" -> MaxEvents
    [] OTHER -> 0

Arguments(op) ==
  CASE input.fn = "construct" -> IF op = "new AppError" THEN CtorInputs(Previous) ELSE {}
    [] input.fn = "builder" -> BuilderInputs(op)
    [] input.fn = "metadata" -> MetadataInputs(op)
    [] input.fn = "factory" -> FactoryInputs(op)
    [] input.fn = "originalError" -> OriginalErrorInputs(op)
    [] input.fn = "reuse" -> ReuseInputs(op)
    [] input.fn = "entry" -> EntryInputs(op)
    [] input.fn = "capture" -> CaptureInputs(op)
    [] OTHER -> {}

\* What the host does once to set the plugin up.
Setup == {"errorHandlerPlugin", "install", "assignUnknown"}

\* The calls a scenario allows next to its budget.
Unbudgeted ==
  CASE input.fn = "builder" -> Count("new AppError")
    [] input.fn = "entry" -> Count("isAppError")
    [] input.fn = "capture" -> Cardinality({i \in 1..Len(log) : log[i].op \in Setup})
    [] OTHER -> 0

\* What the program may pass to op as its next call.  In the builder
\* scenario the program, once it has built an error, constructs one directly
\* for comparison, next to its budget of builder calls; in the entry-point
\* scenario it asks isAppError once; in the capture scenario the budget is
\* of events, and the host sets the plugin up once.
Draw(op) ==
  IF input.fn = "script"
  THEN IF Calls < Len(input.args) /\ input.args[Calls + 1].op = op
       THEN {input.args[Calls + 1].lit} ELSE {}
  ELSE IF input.fn = "builder" /\ op = "new AppError"
  THEN IF Count("build") > 0 /\ Count(op) = 0 THEN Arguments(op) ELSE {}
  ELSE IF (input.fn = "entry" /\ op = "isAppError") \/ (input.fn = "capture" /\ op \in Setup)
  THEN IF Count(op) = 0 THEN Arguments(op) ELSE {}
  ELSE IF Calls - Unbudgeted < Budget
  THEN Arguments(op) ELSE {}

\* The objects the program holds once it has put them in an option bag.
Held(h, v) == IF IsRef(v) THEN Children(h, v.a) ELSE {}

\* const error = new AppError(options)
NewAppError ==
  /\ \E lit \in Draw("new AppError") :
       \E a \in {AllocLit(heap, lit)} :
         \E r \in {AppErrorConstructor(a.h, a.v, Now)} :
           /\ heap' = r.h
           /\ roots' = roots \cup Held(a.h, a.v) \cup (IF r.threw THEN {} ELSE {r.v.a})
           /\ errors' = IF r.threw THEN errors ELSE Append(errors, r.v.a)
           /\ log' = Append(log, IF r.threw THEN Threw("new AppError", <<a.v>>, <<lit>>)
                                 ELSE Returned(r.h, "new AppError", <<a.v>>, <<lit>>, r.v))
  /\ UNCHANGED <<builder, input, host>>

\* import { AppError } from the entry point; const error = new AppError(options)
NewEntryAppError ==
  /\ input.fn = "entry"
  /\ \E lit \in Draw("new AppError") :
       \E a \in {AllocLit(heap, lit)} :
         \E r \in {EntryAppErrorConstructor(a.h, a.v, Now)} :
           /\ heap' = r.h
           /\ roots' = roots \cup Held(a.h, a.v) \cup (IF r.threw THEN {} ELSE {r.v.a})
           /\ errors' = IF r.threw THEN errors ELSE Append(errors, r.v.a)
           /\ log' = Append(log, IF r.threw THEN Threw("new AppError", <<a.v>>, <<lit>>)
                                 ELSE Returned(r.h, "new AppError", <<a.v>>, <<lit>>, r.v))
  /\ UNCHANGED <<builder, input, host>>

\* AppError.isAppError(value), for an error the program holds or another
\* value.
CallIsAppError ==
  /\ \E lit \in Draw("isAppError") :
       \E a \in {IF lit.t = "held" THEN [h |-> heap, v |-> Ref(errors[lit.k])]
                  ELSE AllocLit(heap, lit)} :
         /\ heap' = a.h
         /\ roots' = roots \cup RefsIn(<<a.v>>)
         /\ log' = Append(log, Entry("isAppError", <<a.v>>, <<lit>>,
                                     Bool(isAppError(a.h, a.v)),
                                     Bool(isAppError(a.h, a.v)), FALSE))
  /\ UNCHANGED <<builder, errors, input, host>>

\* const builder = createAppErrorBuilder({ code, type })
CallCreateAppErrorBuilder ==
  /\ ~builder.live
  /\ \E lit \in Draw("createAppErrorBuilder") :
       \E a \in {AllocLit(heap, lit)} :
         \E r \in {createAppErrorBuilder(a.h, a.v, Now)} :
           /\ heap' = r.h
           /\ builder' = IF r.threw THEN NoBuilder ELSE [live |-> TRUE, state |-> r.state]
           /\ log' = Append(log,
                IF r.threw THEN Threw("createAppErrorBuilder", <<a.v>>, <<lit>>)
                ELSE Returned(r.h, "createAppErrorBuilder", <<a.v>>, <<lit>>, Undefined))
  /\ UNCHANGED <<roots, errors, input, host>>

\* builder.withX(argument), for the setter X that F models: the program
\* evaluates the argument, which it keeps, and calls the setter.
CallSetter(op, F(_, _, _), lit) ==
  /\ builder.live
  /\ \E a \in {AllocLit(heap, lit)} :
       \E r \in {F(a.h, builder.state, a.v)} :
         /\ heap' = r.h
         /\ builder' = [live |-> TRUE, state |-> r.state]
         /\ roots' = roots \cup RefsIn(<<a.v>>)
         /\ log' = Append(log, IF r.threw THEN Threw(op, <<a.v>>, <<lit>>)
                               ELSE Returned(r.h, op, <<a.v>>, <<lit>>, Undefined))
  /\ UNCHANGED <<errors, input, host>>

CallWithMessages ==
  \E lit \in Draw("withMessages") : CallSetter("withMessages", withMessages, lit)
CallWithReason ==
  \E lit \in Draw("withReason") : CallSetter("withReason", withReason, lit)
CallWithLevel ==
  \E lit \in Draw("withLevel") : CallSetter("withLevel", withLevel, lit)
CallWithService ==
  \E lit \in Draw("withService") : CallSetter("withService", withService, lit)
CallWithMetadata ==
  \E lit \in Draw("withMetadata") : CallSetter("withMetadata", withMetadata, lit)
CallWithDescriptions ==
  \E lit \in Draw("withDescriptions") : CallSetter("withDescriptions", withDescriptions, lit)
CallWithBreadcrumbs ==
  \E lit \in Draw("withBreadcrumbs") : CallSetter("withBreadcrumbs", withBreadcrumbs, lit)
CallWithCauses ==
  \E lit \in Draw("withCauses") : CallSetter("withCauses", withCauses, lit)
CallWithOriginalError ==
  \E lit \in Draw("withOriginalError") : CallSetter("withOriginalError", withOriginalError, lit)
CallWithTimestamp ==
  \E lit \in Draw("withTimestamp") : CallSetter("withTimestamp", withTimestamp, lit)

\* const error = builder.build()
CallBuild ==
  /\ builder.live
  /\ Draw("build") # {}
  /\ \E r \in {build(heap, builder.state, Now)} :
       /\ heap' = r.h
       /\ roots' = roots \cup (IF r.threw THEN {} ELSE {r.v.a})
       /\ errors' = IF r.threw THEN errors ELSE Append(errors, r.v.a)
       /\ log' = Append(log, IF r.threw THEN Threw("build", <<>>, <<>>)
                             ELSE Returned(r.h, "build", <<>>, <<>>, r.v))
  /\ UNCHANGED <<builder, input, host>>

\* const error = factories.name(options), for the factory F models.
CallFactory(name, F(_, _, _), lit) ==
  /\ \E a \in {AllocLit(heap, lit)} :
       \E r \in {F(a.h, a.v, Now)} :
         /\ heap' = IF r.threw THEN a.h ELSE r.h
         /\ roots' = roots \cup Held(a.h, a.v) \cup (IF r.threw THEN {} ELSE {r.v.a})
         /\ errors' = IF r.threw THEN errors ELSE Append(errors, r.v.a)
         /\ log' = Append(log, IF r.threw THEN Threw(name, <<a.v>>, <<lit>>)
                               ELSE Returned(r.h, name, <<a.v>>, <<lit>>, r.v))
  /\ UNCHANGED <<builder, input, host>>

CallNetwork ==
  \E lit \in Draw("network") : CallFactory("network", createNetworkError, lit)
CallValidation ==
  \E lit \in Draw("validation") : CallFactory("validation", createValidationError, lit)
CallMapping ==
  \E lit \in Draw("mapping") : CallFactory("mapping", createMappingError, lit)
CallPermission ==
  \E lit \in Draw("permission") : CallFactory("permission", createPermissionError, lit)
CallComponent ==
  \E lit \in Draw("component") : CallFactory("component", createComponentError, lit)
CallEnvironment ==
  \E lit \in Draw("environment") : CallFactory("environment", createEnvironmentError, lit)
CallSystem ==
  \E lit \in Draw("system") : CallFactory("system", createSystemError, lit)
CallUnknown ==
  \E lit \in Draw("unknown") : CallFactory("unknown", createUnknownError, lit)
CallFeature ==
  \E lit \in Draw("feature") : CallFactory("feature", createFeatureError, lit)

\* The fields of an event the platform created, evaluated into the heap.
RECURSIVE EvalEvent(_, _, _, _)
EvalEvent(h, lit, keys, done) ==
  IF keys = <<>> THEN [h |-> h, event |-> done]
  ELSE Bind(AllocLit(h, IF Head(keys) \in DOMAIN lit.p THEN lit.p[Head(keys)]
                        ELSE Undefined), LAMBDA r :
         EvalEvent(r.h, lit, Tail(keys), (Head(keys) :> r.v) @@ done))

\* The listener registered for a capture site.
RunListener(h, site, event, now) ==
  CASE site \in {"unhandledRejection", "rejectionHandled"} ->
         rejectionListener(h, plugin, unknown, site, event, now)
    [] site = "resourceError" -> resourceErrorListener(h, plugin, unknown, event, now)
    [] site = "globalError" -> globalErrorListener(h, plugin, unknown, event, now)

\* The platform runs the listeners of an event in the order they were
\* registered; one that throws does not keep the next from running.
RECURSIVE Deliver(_, _, _, _, _)
Deliver(h, ls, event, now, done) ==
  IF ls = <<>> THEN [done EXCEPT !.h = h]
  ELSE Bind(RunListener(h, Head(ls).site, event, now), LAMBDA r :
         Deliver(r.h, Tail(ls), event, now,
                 [done EXCEPT !.calls = @ \o r.calls, !.threw = @ \/ r.threw]))

\* The listeners an event reaches: those of its type; an event that does
\* not bubble reaches window only in the capture phase unless window is its
\* target.
Reached(type, event) ==
  SelectSeq(listeners, LAMBDA l :
    /\ l.type = type
    /\ \/ l.useCapture
       \/ "target" \notin DOMAIN event
       \/ ~IsRef(event.target)
       \/ Truthy(event.bubbles))

\* The calls made into the host during call `at` of the log, each with the
\* structure of its arguments at the time.
Made(h, made, at) ==
  [i \in DOMAIN made |->
     [at |-> at, fn |-> made[i].fn, args |-> made[i].args,
      views |-> [j \in DOMAIN made[i].args |-> Snapshot(h, made[i].args[j])]]]

\* The AppErrors handed to the host.
Handed(h, made) ==
  LET reported == SelectSeq(made, LAMBDA c : c.args # <<>> /\ IsAppError(h, c.args[1]))
  IN [i \in DOMAIN reported |-> reported[i].args[1].a]

\* What the host observes of a delivery r of the event evaluated as e; the
\* log keeps the values of the event's fields, in the order of keys.
Observe(op, lit, keys, e, r) ==
  /\ heap' = r.h
  /\ roots' = roots \cup RefsIn(SeqOfSet({e.event[k] : k \in DOMAIN e.event}))
                    \cup {Handed(r.h, r.calls)[i] : i \in DOMAIN Handed(r.h, r.calls)}
  /\ errors' = errors \o Handed(r.h, r.calls)
  /\ callbacks' = callbacks \o Made(r.h, r.calls, Len(log) + 1)
  /\ log' = Append(log, Entry(op, [k \in DOMAIN keys |-> e.event[keys[k]]], <<lit>>,
                              Undefined, Undefined, r.threw))
  /\ UNCHANGED <<builder, input, plugin, listeners, errorHandler, unknown>>

\* const plugin = errorHandlerPlugin(options)
CallErrorHandlerPlugin ==
  /\ \E lit \in Draw("errorHandlerPlugin") :
       /\ plugin' = errorHandlerPlugin(lit)
       /\ log' = Append(log, Entry("errorHandlerPlugin", <<>>, <<lit>>, Undefined,
                                   Undefined, FALSE))
  /\ UNCHANGED <<heap, roots, builder, errors, input, listeners, errorHandler, unknown,
                 callbacks>>

\* plugin.install(app), in an environment with or without a window.  The
\* log keeps the handler the application had.
CallInstall ==
  /\ plugin.created
  /\ \E isBrowser \in Draw("install") :
       \E r \in {install(plugin, errorHandler, isBrowser.b)} :
         /\ listeners' = listeners \o r.listeners
         /\ errorHandler' = r.errorHandler
         /\ log' = Append(log, Entry("install", <<errorHandler>>, <<isBrowser>>,
                                     Undefined, Undefined, FALSE))
  /\ UNCHANGED <<heap, roots, builder, errors, input, plugin, unknown, callbacks>>

\* The host gives the class of app-error.js the static the plugin calls, as
\* the plugin's tests do before installing it: AppError.unknown = ...
AssignUnknown ==
  /\ Count("install") = 0
  /\ \E fn \in Draw("assignUnknown") :
       /\ unknown' = fn
       /\ log' = Append(log, Entry("assignUnknown", <<>>, <<fn>>, Undefined, Undefined,
                                   FALSE))
  /\ UNCHANGED <<heap, roots, builder, errors, input, plugin, listeners, errorHandler,
                 callbacks>>

\* Whether the plugin was installed where there is a window.
InBrowser == \E i \in 1..Len(log) : log[i].op = "install" /\ log[i].lits = <<Bool(TRUE)>>

\* The platform delivers an event of that type to window.
Dispatch(type, lit, keys) ==
  /\ InBrowser
  /\ \E e \in {EvalEvent(heap, lit, keys, EmptyProps)} :
       \E r \in {Deliver(e.h, Reached(type, e.event), e.event, Now, Ran(e.h, <<>>))} :
         Observe(type, lit, keys, e, r)

DispatchUnhandledRejection ==
  \E lit \in Draw("unhandledrejection") :
    Dispatch("unhandledrejection", lit, <<"type", "reason", "isTrusted">>)

DispatchRejectionHandled ==
  \E lit \in Draw("rejectionhandled") :
    Dispatch("rejectionhandled", lit, <<"type", "reason", "isTrusted">>)

DispatchError ==
  \E lit \in Draw("error") :
    Dispatch("error", lit,
             <<"target", "error", "message", "filename", "lineno", "colno", "bubbles">>)

\* A component throws: the framework calls app.config.errorHandler(error,
\* instance, info) when that is a function.
ComponentError ==
  /\ Count("install") = 1
  /\ \E lit \in Draw("componentError") :
       \E e \in {EvalEvent(heap, lit, <<"error", "instance", "info">>, EmptyProps)} :
         \E r \in {CASE errorHandler.t = "wrapper" ->
                          vueErrorHandler(e.h, plugin, unknown,
                                          errorHandler.previousHandler, e.event.error,
                                          e.event.instance, e.event.info, Now)
                     [] errorHandler.t = "function" ->
                          Ran(e.h, <<Callback(errorHandler.s,
                                              <<e.event.error, e.event.instance,
                                                e.event.info>>)>>)
                     [] OTHER -> Ran(e.h, <<>>)} :
           Observe("componentError", lit, <<"error", "instance", "info">>, e, r)

Scenario(fn, args) ==
  /\ heap = <<>>
  /\ roots = {}
  /\ builder = NoBuilder
  /\ errors = <<>>
  /\ log = <<>>
  /\ input = [fn |-> fn, args |-> args]
  /\ HostAtStart(Undefined)

\* Direct construction.
InitCtor == Scenario("construct", <<>>)
NextCtor == NewAppError
SpecCtor == InitCtor /\ [][NextCtor]_vars

CallAnySetter ==
  \/ CallWithMessages \/ CallWithReason \/ CallWithLevel \/ CallWithService
  \/ CallWithMetadata \/ CallWithDescriptions \/ CallWithBreadcrumbs \/ CallWithCauses
  \/ CallWithOriginalError \/ CallWithTimestamp

\* One builder, every setter; the program may also construct an error
\* directly.
InitBuilder == Scenario("builder", <<>>)
NextBuilder == CallCreateAppErrorBuilder \/ CallAnySetter \/ CallBuild \/ NewAppError
SpecBuilder == InitBuilder /\ [][NextBuilder]_vars

\* One builder, metadata accumulated over several calls.
InitMetadata == Scenario("metadata", <<>>)
NextMetadata == CallCreateAppErrorBuilder \/ CallWithMetadata \/ CallBuild
SpecMetadata == InitMetadata /\ [][NextMetadata]_vars

\* One builder, the original error set, kept and cleared over several calls.
InitOriginalError == Scenario("originalError", <<>>)
NextOriginalError == CallCreateAppErrorBuilder \/ CallWithOriginalError \/ CallBuild
SpecOriginalError == InitOriginalError /\ [][NextOriginalError]_vars

\* One builder used again after a build, and after a setter has thrown.
InitReuse == Scenario("reuse", <<>>)
NextReuse == CallCreateAppErrorBuilder \/ CallAnySetter \/ CallBuild
SpecReuse == InitReuse /\ [][NextReuse]_vars

CallAnyFactory ==
  \/ CallNetwork \/ CallValidation \/ CallMapping \/ CallPermission \/ CallComponent
  \/ CallEnvironment \/ CallSystem \/ CallUnknown \/ CallFeature

\* The factories.
InitFactory == Scenario("factory", <<>>)
NextFactory == CallAnyFactory
SpecFactory == InitFactory /\ [][NextFactory]_vars

\* The public entry point: the exported class, its static shortcuts, the
\* builder and the type guard.
InitEntry == Scenario("entry", <<>>)
NextEntry ==
  \/ NewEntryAppError \/ CallAnyFactory \/ CallCreateAppErrorBuilder \/ CallBuild
  \/ CallIsAppError
SpecEntry == InitEntry /\ [][NextEntry]_vars

\* The capture plugin in a host: an application with or without an error
\* handler of its own creates the plugin and installs it, and the platform
\* delivers events.
InitCapture ==
  /\ heap = <<>>
  /\ roots = {}
  /\ builder = NoBuilder
  /\ errors = <<>>
  /\ log = <<>>
  /\ input = [fn |-> "capture", args |-> <<>>]
  /\ \E handler \in {Undefined, Function("hostHandler")} : HostAtStart(handler)
NextCapture ==
  \/ CallErrorHandlerPlugin \/ CallInstall \/ AssignUnknown
  \/ DispatchUnhandledRejection \/ DispatchRejectionHandled \/ DispatchError
  \/ ComponentError
SpecCapture == InitCapture /\ [][NextCapture]_vars

\* A script, with the program writing to the objects it holds at any point.
Init == \E script \in Scripts : Scenario("script", script)
Next ==
  \/ NewAppError \/ CallCreateAppErrorBuilder \/ CallAnySetter \/ CallBuild
  \/ CallAnyFactory \/ CallerWrite
Spec == Init /\ [][Next]_vars

-----------------------------------------------------------------------------
(* Properties of the two utilities (checked under SpecPure).               *)

IsMapLit(l) == l.t = "object"
IsSeqLit(l) == l.t = "array"

MergeCalls == {i \in 1..Len(log) : log[i].op = "deepMerge"}
LocalizeCalls == {i \in 1..Len(log) : log[i].op = "ensureLocalizedText"}

\* The merge of two structures as the specification words it.
RECURSIVE MergedLit(_, _)
MergedLit(t, s) ==
  IF IsMapLit(t) /\ IsMapLit(s)
  THEN ObjLit([k \in DOMAIN t.p \cup DOMAIN s.p |->
         IF k \notin DOMAIN s.p THEN t.p[k]
         ELSE IF k \in DOMAIN t.p /\ IsSeqLit(t.p[k]) /\ IsSeqLit(s.p[k])
           THEN ArrLit(t.p[k].e \o s.p[k].e)
         ELSE IF k \in DOMAIN t.p /\ IsMapLit(t.p[k]) /\ IsMapLit(s.p[k])
           THEN MergedLit(t.p[k], s.p[k])
         ELSE s.p[k]])
  ELSE s

\* C5: deepMerge(target, source) of two mappings has the union of their keys,
\* keeps target's value under a key only target has, and under each key of
\* source concatenates two sequences (target's first), merges two mappings
\* recursively and otherwise takes source's value; when either argument is
\* not a mapping the result is source, a new object when source is a
\* mapping and source itself otherwise; no shape mismatch raises.
C5_DeepMergeResult ==
  \A i \in MergeCalls :
    LET e == log[i] IN
      /\ ~e.threw
      /\ e.outView = MergedLit(e.lits[1], e.lits[2])
      /\ IsMapLit(e.lits[1]) /\ IsMapLit(e.lits[2]) =>
           DOMAIN e.outView.p = DOMAIN e.lits[1].p \cup DOMAIN e.lits[2].p
      /\ IF IsMapLit(e.lits[2]) THEN e.out # e.args[2] ELSE e.out = e.args[2]

\* A sequence in target meets a mapping in source under the same key, next to
\* a key only target has: the mapping wins and the other key is kept.
C5_Witness ==
  \E i \in MergeCalls :
    /\ log[i].lits = <<O("a", ArrLit(<<N1, N2>>)), O("a", O("y", N2))>>
    /\ log[i].outView = O("a", O("y", N2))

C5_WitnessConcat ==
  \E i \in MergeCalls :
    /\ log[i].lits = <<O("a", ArrLit(<<N1, N2>>)), O("a", ArrLit(<<N3>>))>>
    /\ log[i].outView = O("a", ArrLit(<<N1, N2, N3>>))

\* The mapping cells among a set of cells.
MappingCells(h, cells) == {a \in cells : h[a].kind = "object"}

\* C6: the result of deepMerge(t, s) shares no mapping object with t or with
\* s at any depth, and a later write to a nested mapping of t or of s does
\* not change the result.
C6_NoAliasing ==
  \A i \in MergeCalls :
    LET e == log[i]
        ofArguments == MappingCells(heap, Reachable(heap, RefsIn(e.args)))
        ofResult == MappingCells(heap, Reachable(heap, RefsIn(<<e.out>>)))
    IN /\ ofResult \cap ofArguments = {}
       /\ (\A w \in 1..Len(log) : log[w].op = "write" => log[w].args[1].a \in ofArguments)
            => View(heap, e.out) = e.outView

\* C7: neither utility modifies an argument: right after the call every
\* argument is structurally equal to what the program passed.
C7_ArgumentsUnchanged ==
  (Len(log) = 1 /\ log[1].op \in {"deepMerge", "ensureLocalizedText"}) =>
     \A j \in 1..Len(log[1].args) : View(heap, log[1].args[j]) = log[1].lits[j]

\* Two mappings with a nested mapping under the same key have been merged.
C7_Witness ==
  /\ Len(log) = 1
  /\ log[1].op = "deepMerge"
  /\ log[1].lits = <<OO("a", O("x", N1), "b", N2), O("a", O("y", N2))>>
  /\ log[1].outView = OO("a", OO("x", N1, "y", N2), "b", N2)

\* A slot of a structure, undefined where it has none.
LitSlot(l, k) == IF IsMapLit(l) /\ k \in DOMAIN l.p THEN l.p[k] ELSE Undefined

\* The fallback pair: each slot of the fallback, null where it is missing.
FallbackPairLit(f) ==
  ObjLit([fa |-> Coalesce(LitSlot(f, "fa"), Null), en |-> Coalesce(LitSlot(f, "en"), Null)])

\* The localized pair as the specification words it.
LocalizedLit(v, f) ==
  CASE IsNullish(v) -> FallbackPairLit(f)
    [] v.t = "string" -> ObjLit([fa |-> v, en |-> v])
    [] v.t \in {"object", "array"} ->
         ObjLit([fa |-> Coalesce(LitSlot(v, "fa"),
                                 Coalesce(LitSlot(v, "en"), FallbackPairLit(f).p.fa)),
                 en |-> Coalesce(LitSlot(v, "en"),
                                 Coalesce(LitSlot(v, "fa"), FallbackPairLit(f).p.en))])
    [] OTHER -> FallbackPairLit(f)

\* C8: ensureLocalizedText(value, fallback) is the fallback pair (missing
\* slots null) for a null or undefined value, both slots s for a string s,
\* the cross-filled pair for an object, the fallback pair for any other
\* type; and the pair returned is always a new object.
C8_LocalizedResult ==
  \A i \in LocalizeCalls :
    LET e == log[i] IN
      /\ e.outView = LocalizedLit(e.lits[1], e.lits[2])
      /\ IsRef(e.out)
      /\ e.out \notin {e.args[1], e.args[2]}

\* One locale only, with a complete fallback: the supplied locale fills both.
C8_Witness ==
  \E i \in LocalizeCalls :
    /\ log[i].lits = <<O("en", Str("e")), OO("fa", Str("F"), "en", Str("E"))>>
    /\ log[i].outView = OO("fa", Str("e"), "en", Str("e"))

-----------------------------------------------------------------------------
(* Properties of the errors the program creates.                           *)

\* The calls that returned an AppError.
Creations == {i \in 1..Len(log) : ~log[i].threw /\ IsAppError(heap, log[i].out)}

\* The parts of an AppError the constructor freezes one by one: the instance,
\* its messages object, messages.user, messages.original, and its
\* descriptions, breadcrumbs and causes.
ProtectedCells(h, e) ==
  LET messages == h[e].props.messages
  IN {e, messages.a} \cup RefsIn(<<h[messages.a].props.user, h[messages.a].props.original>>)
     \cup RefsIn(<<h[e].props.descriptions, h[e].props.breadcrumbs, h[e].props.causes>>)

\* One step leaves every protected part of every error frozen and as it was.
ProtectedPartsKept ==
  \A i \in 1..Len(errors') :
    /\ \A a \in ProtectedCells(heap', errors'[i]) : heap'[a].frozen
    /\ i <= Len(errors) =>
         /\ ProtectedCells(heap', errors'[i]) = ProtectedCells(heap, errors[i])
         /\ \A a \in ProtectedCells(heap, errors[i]) : heap'[a] = heap[a]

\* C1: for every AppError returned by the constructor, by build() or by a
\* factory, the instance, its messages object, messages.user,
\* messages.original and its descriptions, breadcrumbs and causes are frozen,
\* and no later operation changes a field or an element of any of them.
C1_ProtectedPartsFrozen == [][ProtectedPartsKept]_vars

\* The program has tried to write to a frozen part of an error other than the
\* instance itself, and the write was rejected.
C1_Witness ==
  \E w \in 1..Len(log) :
    /\ log[w].op = "write"
    /\ log[w].out = Bool(FALSE)
    /\ \E i \in 1..Len(errors) :
         log[w].args[1].a \in ProtectedCells(heap, errors[i]) \ {errors[i]}

\* C2: every mapping or sequence reachable from a returned AppError is
\* frozen, so that nothing the program writes afterwards changes what the
\* error reads as.
C2_DeepFrozen ==
  \A i \in Creations :
    /\ \A a \in Reachable(heap, {log[i].out.a}) :
         heap[a].kind \in {"object", "array"} => heap[a].frozen
    /\ Snapshot(heap, log[i].out) = log[i].outView

\* The argument a call was made with, as the program wrote it.
ArgLit(i) == log[i].lits[1]

Severities == {Str(l) : l \in ERROR_LEVELS}
Categories == {Str(t) : t \in ERROR_TYPES}

\* Empty or whitespace-only.
Blank(text) == text \in {"", "   "}

\* The calls the builder must reject.
Offending(i) ==
  LET op == log[i].op
      arg == ArgLit(i)
  IN \/ /\ op = "createAppErrorBuilder"
        /\ \/ LitSlot(arg, "code").t # "string"
           \/ Blank(LitSlot(arg, "code").s)
           \/ LitSlot(arg, "type") \notin Categories
     \/ op = "withLevel" /\ arg \notin Severities
     \/ op = "withReason" /\ arg.t # "string" /\ ~IsNullish(arg)
     \/ op = "withMetadata" /\ arg = Null
     \/ op = "withOriginalError" /\ ~IsNullish(arg) /\ arg.t # "error"
     \/ op = "withTimestamp" /\ arg.t # "date"
          /\ (arg.t = "string" => DateParse(arg.s) = NaN)

\* C3: createAppErrorBuilder throws and returns no builder for a code that is
\* not a string, is empty or is blank, and for a type outside the nine
\* categories; withLevel, withReason, withMetadata(null), withOriginalError
\* and withTimestamp throw on an offending argument at that very call, and
\* build() never throws.
C3_BuilderValidation ==
  /\ \A i \in 1..Len(log) :
       /\ (log[i].op # "write" /\ log[i].op # "build" /\ Offending(i)) => log[i].threw
       /\ log[i].op = "build" => ~log[i].threw
  /\ builder.live =>
       \E i \in 1..Len(log) : log[i].op = "createAppErrorBuilder" /\ ~log[i].threw

\* A setter rejected its argument and the build() that followed returned.
C3_Witness ==
  \E i, j \in 1..Len(log) :
    /\ i < j
    /\ log[i].op = "withTimestamp" /\ ArgLit(i) = Str("not-a-date") /\ log[i].threw
    /\ log[j].op = "build" /\ ~log[j].threw

\* The mappings passed to the withMetadata calls that returned before call j,
\* in call order; withMetadata() passes an empty mapping.
RECURSIVE MetadataBefore(_)
MetadataBefore(j) ==
  IF j <= 1 THEN <<>>
  ELSE LET e == log[j - 1]
       IN IF e.op = "withMetadata" /\ ~e.threw
          THEN Append(MetadataBefore(j - 1), IF e.lits[1] = Undefined THEN Empty ELSE e.lits[1])
          ELSE MetadataBefore(j - 1)

\* The left fold of the merge over a sequence of mappings.
RECURSIVE FoldMerged(_, _)
FoldMerged(acc, ms) ==
  IF ms = <<>> THEN acc ELSE FoldMerged(MergedLit(acc, Head(ms)), Tail(ms))

\* C4: the metadata of a built error is the left fold of deepMerge over the
\* mappings passed to withMetadata, starting from the empty mapping.
C4_MetadataFold ==
  \A j \in 1..Len(log) :
    (log[j].op = "build" /\ ~log[j].threw
       /\ \A k \in 1..Len(MetadataBefore(j)) : IsMapLit(MetadataBefore(j)[k]))
    => log[j].outView.p.metadata = FoldMerged(Empty, MetadataBefore(j))

\* withMetadata({a: {x: 1}}) then withMetadata({a: {y: 2}}), then build().
C4_Witness ==
  \E j \in 1..Len(log) :
    /\ log[j].op = "build"
    /\ MetadataBefore(j) = <<O("a", O("x", N1)), O("a", O("y", N2))>>
    /\ log[j].outView.p.metadata = O("a", OO("x", N1, "y", N2))

\* The messages a creation was asked for: the messages option of a
\* constructor or factory call, the argument of the last withMessages before
\* a build().
RECURSIVE LastWithMessages(_)
LastWithMessages(j) ==
  IF j <= 1 THEN Undefined
  ELSE IF log[j - 1].op = "withMessages" /\ ~log[j - 1].threw THEN log[j - 1].lits[1]
  ELSE LastWithMessages(j - 1)

MessagesAsked(i) ==
  IF log[i].op = "build" THEN LastWithMessages(i) ELSE LitSlot(ArgLit(i), "messages")

Supplied(m, k) == ~IsNullish(LitSlot(m, k))

\* C9: when exactly one of messages.user and messages.original is supplied,
\* both messages of the error are the supplied one, cross-filled.
C9_OneSidedMirrors ==
  \A i \in Creations :
    LET asked == MessagesAsked(i)
        got == log[i].outView.p.messages.p
    IN /\ (Supplied(asked, "user") /\ ~Supplied(asked, "original")) =>
            /\ got.user = LocalizedLit(asked.p.user, DEFAULT_MESSAGES.p.user)
            /\ got.original = got.user
       /\ (Supplied(asked, "original") /\ ~Supplied(asked, "user")) =>
            /\ got.original = LocalizedLit(asked.p.original, DEFAULT_MESSAGES.p.original)
            /\ got.user = got.original

\* What one entry of causes becomes, as the specification words it.
CauseLit(c) ==
  CASE c.t = "error" ->
         ObjLit([name |-> c.p.name,
                 message |-> LocalizedLit(c.p.message, DEFAULT_MESSAGES.p.original),
                 stack |-> c.p.stack])
    [] c.t = "object" ->
         ObjLit(("message" :> LocalizedLit(c.p.message, DEFAULT_MESSAGES.p.original)) @@ c.p)
    [] OTHER -> c

\* The entries the specification speaks of: an AppError, a native error, an
\* object with a message, null, undefined.
Described(c) ==
  \/ IsNullish(c)
  \/ c.t = "error"
  \/ c.t = "object" /\ "message" \in DOMAIN c.p
  \/ IsRef(c) /\ IsAppError(heap, c)

RECURSIVE CausesLit(_)
CausesLit(cs) ==
  IF cs = <<>> THEN <<>>
  ELSE IF IsNullish(Head(cs)) THEN CausesLit(Tail(cs))
  ELSE <<CauseLit(Head(cs))>> \o CausesLit(Tail(cs))

\* C10: the causes of a constructed error are the entries of the causes
\* option in input order without the null and undefined ones, an AppError
\* kept by identity, a native error as a frozen {name, message, stack} with
\* its name and stack and its message localized, an object with a message as
\* a copy with the message localized.
C10_CausesMapped ==
  \A i \in Creations :
    LET asked == LitSlot(ArgLit(i), "causes")
        got == heap[log[i].out.a].props.causes
    IN (log[i].op = "new AppError" /\ IsSeqLit(asked)
          /\ \A k \in 1..Len(asked.e) : Described(asked.e[k]))
       => /\ log[i].outView.p.causes = ArrLit(CausesLit(asked.e))
          /\ \A k \in 1..Len(heap[got.a].elems) : IsFrozen(heap, heap[got.a].elems[k])

\* [anAppError, new Error("e"), {message: "c"}, null] gave three causes, the
\* first being the AppError itself.
C10_Witness ==
  \E i \in Creations :
    LET asked == LitSlot(ArgLit(i), "causes")
        got == log[i].outView.p.causes
    IN /\ log[i].op = "new AppError"
       /\ IsSeqLit(asked) /\ Len(asked.e) = 4
       /\ IsRef(asked.e[1]) /\ asked.e[2].t = "error" /\ asked.e[4] = Null
       /\ Len(got.e) = 3
       /\ got.e[1] = asked.e[1]

\* The time at which call i was made.
CalledAt(i) == Now - Len(log) + i - 1

\* The time a supplied breadcrumb timestamp stands for, NaN when it stands
\* for none.
SuppliedTime(ts) ==
  CASE ts.t = "date" -> ts.p.time
    [] ts.t = "string" -> DateParse(ts.s)
    [] ts.t = "number" -> ts
    [] OTHER -> NaN

\* Whether an entry of the trail survives: a string, or an object with a
\* message.
BreadcrumbKept(b) ==
  \/ b.t = "string" /\ b.s # ""
  \/ IsMapLit(b) /\ ~IsNullish(LitSlot(b, "message"))

\* What a surviving entry becomes, as the specification words it.
BreadcrumbLit(b, now) ==
  IF b.t = "string"
  THEN ObjLit([message |-> ObjLit([fa |-> b, en |-> b]), category |-> Null,
               level |-> Null, data |-> Null, timestamp |-> Num(now)])
  ELSE ObjLit([message |-> LocalizedLit(b.p.message, DEFAULT_MESSAGES.p.user),
               category |-> Coalesce(LitSlot(b, "category"), Null),
               level |-> Coalesce(LitSlot(b, "level"), Null),
               data |-> Coalesce(LitSlot(b, "data"), Null),
               timestamp |-> IF SuppliedTime(LitSlot(b, "timestamp")) = NaN
                             THEN Num(now)
                             ELSE SuppliedTime(LitSlot(b, "timestamp"))])

RECURSIVE BreadcrumbsLit(_, _)
BreadcrumbsLit(bs, now) ==
  IF bs = <<>> THEN <<>>
  ELSE IF BreadcrumbKept(Head(bs))
  THEN <<BreadcrumbLit(Head(bs), now)>> \o BreadcrumbsLit(Tail(bs), now)
  ELSE BreadcrumbsLit(Tail(bs), now)

\* The trail a breadcrumbs option stands for: empty for null or absent, the
\* one item for a value that is no sequence.
TrailOf(asked) ==
  IF IsNullish(asked) THEN <<>> ELSE IF IsSeqLit(asked) THEN asked.e ELSE <<asked>>

\* C11: the breadcrumbs of a constructed error are the entries of the trail
\* the option stands for, in input order, without the falsy entries and the
\* objects that have no message; a string entry carries its text in both
\* slots, null category, level and data and the capture time; an object
\* entry carries its supplied timestamp when that is a date, and the capture
\* time when it is absent or no date.
C11_BreadcrumbsNormalized ==
  \A i \in Creations :
    log[i].op = "new AppError" =>
      log[i].outView.p.breadcrumbs =
        ArrLit(BreadcrumbsLit(TrailOf(LitSlot(ArgLit(i), "breadcrumbs")), CalledAt(i)))

\* The calls that built an error through the builder: build() and the
\* factories.
BuiltByBuilder == {i \in Creations : log[i].op # "new AppError"}

\* A date value that is a date, or a string that parses to one.
ValidTimestampLit(ts) ==
  \/ ts.t = "date" /\ ts.p.time # NaN
  \/ ts.t = "string" /\ DateParse(ts.s) # NaN

\* C12: every error built through the builder or a factory has a valid
\* timestamp, and withTimestamp throws for every argument that is neither a
\* date nor a string that parses to one.
C12_BuilderTimestampValid ==
  /\ \A i \in BuiltByBuilder : ValidTimestampLit(log[i].outView.p.timestamp)
  /\ \A i \in 1..Len(log) :
       (log[i].op = "withTimestamp" /\ ArgLit(i).t # "date"
          /\ ~ValidTimestampLit(ArgLit(i))) => log[i].threw

\* C13: withMetadata throws for every argument that is null or is not a
\* mapping, arrays included, so that the metadata the builder has accumulated
\* is always a mapping.
C13_MetadataMappingsOnly ==
  /\ \A i \in 1..Len(log) :
       (log[i].op = "withMetadata" /\ ArgLit(i) # Undefined /\ ~IsMapLit(ArgLit(i)))
         => log[i].threw
  /\ builder.live => KindOf(heap, builder.state.metadata) = "object"

\* What an entry of causes that is not null or undefined becomes: a native
\* error and an object with a message are mapped, anything else is kept as
\* it is.
KeptCauseLit(c) ==
  IF c.t = "error" \/ (IsMapLit(c) /\ "message" \in DOMAIN c.p) THEN CauseLit(c) ELSE c

RECURSIVE KeptCausesLit(_)
KeptCausesLit(cs) ==
  IF cs = <<>> THEN <<>>
  ELSE IF IsNullish(Head(cs)) THEN KeptCausesLit(Tail(cs))
  ELSE <<KeptCauseLit(Head(cs))>> \o KeptCausesLit(Tail(cs))

\* C14: the causes of a constructed error hold one entry for every entry of
\* the causes option that is neither null nor undefined, primitives such as
\* 0, "" and false included, each unrecognised entry verbatim.
C14_EveryCauseKept ==
  \A i \in Creations :
    LET asked == LitSlot(ArgLit(i), "causes")
    IN (log[i].op = "new AppError" /\ IsSeqLit(asked)) =>
         log[i].outView.p.causes = ArrLit(KeptCausesLit(asked.e))

\* The argument of the last call of op that returned before call j,
\* undefined when there is none.
RECURSIVE LastArgument(_, _)
LastArgument(j, op) ==
  IF j <= 1 THEN Undefined
  ELSE IF log[j - 1].op = op /\ ~log[j - 1].threw THEN log[j - 1].lits[1]
  ELSE LastArgument(j - 1, op)

\* The three setters that coerce their argument to a sequence, and the field
\* each one stores.
CoercedField(op) ==
  CASE op = "withDescriptions" -> "descriptions"
    [] op = "withBreadcrumbs" -> "breadcrumbs"
    [] op = "withCauses" -> "causes"
    [] OTHER -> "none"

\* C15: withDescriptions, withBreadcrumbs and withCauses never throw and
\* store an empty sequence for null or undefined, a one-element sequence for
\* a value that is no sequence and the given sequence itself otherwise; the
\* error built afterwards has the causes and descriptions of that sequence;
\* the constructor given a causes value that is no sequence has no causes.
C15_SequenceCoercion ==
  /\ \A i \in 1..Len(log) : CoercedField(log[i].op) # "none" => ~log[i].threw
  /\ (log # <<>> /\ CoercedField(log[Len(log)].op) # "none") =>
       LET last == log[Len(log)]
           stored == builder.state[CoercedField(last.op)]
       IN /\ View(heap, stored) = ArrLit(TrailOf(last.lits[1]))
          /\ IsSeqLit(last.lits[1]) => stored = last.args[1]
  /\ \A j \in Creations :
       /\ log[j].op = "build" =>
            /\ log[j].outView.p.causes =
                 ArrLit(KeptCausesLit(TrailOf(LastArgument(j, "withCauses"))))
            /\ log[j].outView.p.descriptions =
                 ArrLit(TrailOf(LastArgument(j, "withDescriptions")))
       /\ (log[j].op = "new AppError" /\ ~IsSeqLit(LitSlot(ArgLit(j), "causes"))) =>
            log[j].outView.p.causes = ArrLit(<<>>)

\* withCauses({message: "c"}) then build() gave one cause, and the
\* constructor given causes: {message: "c"} gave none.
C15_Witness ==
  \E i, j \in Creations :
    /\ log[i].op = "build"
    /\ LastArgument(i, "withCauses") = O("message", Str("c"))
    /\ Len(log[i].outView.p.causes.e) = 1
    /\ log[j].op = "new AppError"
    /\ LitSlot(ArgLit(j), "causes") = O("message", Str("c"))
    /\ log[j].outView.p.causes.e = <<>>

\* The last withOriginalError call before call j that returned and was given
\* something other than undefined; 0 when there is none.
RECURSIVE LastStoring(_)
LastStoring(j) ==
  IF j <= 1 THEN 0
  ELSE IF log[j - 1].op = "withOriginalError" /\ ~log[j - 1].threw
          /\ log[j - 1].lits[1] # Undefined
  THEN j - 1
  ELSE LastStoring(j - 1)

\* C16: withOriginalError throws exactly for a value that is neither
\* undefined, null nor a native error; the originalError of a built error is
\* the error given to the last call that was given an error or null (null
\* for null, and when there was no such call), calls given undefined
\* changing nothing.
C16_OriginalErrorKept ==
  /\ \A i \in 1..Len(log) :
       log[i].op = "withOriginalError" =>
         (log[i].threw <=> ~(IsNullish(ArgLit(i)) \/ ArgLit(i).t = "error"))
  /\ \A j \in Creations :
       log[j].op = "build" =>
         LET k == LastStoring(j)
             got == heap[log[j].out.a].props.originalError
         IN IF k = 0 THEN got = Null
            ELSE /\ got = log[k].args[1]
                 /\ log[j].outView.p.originalError = log[k].lits[1]

\* withOriginalError(e), withOriginalError(undefined), build() gave e; then
\* withOriginalError(null), build() gave null.
C16_Witness ==
  \E i, j \in Creations :
    /\ i > 2 /\ j = i + 2
    /\ log[i].op = "build" /\ log[j].op = "build"
    /\ log[i - 2].op = "withOriginalError" /\ log[i - 2].lits[1] = ErrLit("Error", "boom")
    /\ log[i - 1].op = "withOriginalError" /\ log[i - 1].lits[1] = Undefined
    /\ log[i].outView.p.originalError = ErrLit("Error", "boom")
    /\ log[j - 1].op = "withOriginalError" /\ log[j - 1].lits[1] = Null
    /\ log[j].outView.p.originalError = Null

\* The default severity of a category, and "error" for a type that is none.
CategoryLevel(type) ==
  IF type \in Categories
  THEN Str(CASE type.s \in {"network", "mapping", "component", "system", "unknown"} -> "error"
             [] type.s \in {"validation", "permission"} -> "warn"
             [] type.s = "environment" -> "fatal"
             [] type.s = "feature" -> "info")
  ELSE Str("error")

\* The createAppErrorBuilder call the builder of call j came from.
RECURSIVE BuilderOf(_)
BuilderOf(j) ==
  IF log[j].op = "createAppErrorBuilder" /\ ~log[j].threw THEN j ELSE BuilderOf(j - 1)

\* C17: the level of an error is the level supplied (the level option, the
\* last withLevel) when there is one, and otherwise the default severity of
\* its type, "error" for a type outside the nine categories.
C17_LevelResolved ==
  \A i \in Creations :
    LET got == log[i].outView.p.level
        type == log[i].outView.p.type
    IN CASE log[i].op = "new AppError" ->
              got = IF IsNullish(LitSlot(ArgLit(i), "level")) THEN CategoryLevel(type)
                    ELSE LitSlot(ArgLit(i), "level")
         [] log[i].op = "build" ->
              /\ type = LitSlot(ArgLit(BuilderOf(i)), "type")
              /\ got = IF LastArgument(i, "withLevel") = Undefined THEN CategoryLevel(type)
                       ELSE LastArgument(i, "withLevel")
         [] OTHER ->
              /\ type = Str(log[i].op)
              /\ got = IF Truthy(LitSlot(ArgLit(i), "level")) THEN LitSlot(ArgLit(i), "level")
                       ELSE CategoryLevel(type)

\* A value or fallback that carries at least one text: a string, or an
\* object with one of its two slots set.
CarriesText(l) ==
  \/ l.t = "string"
  \/ l.t \in {"object", "array"}
       /\ (~IsNullish(LitSlot(l, "fa")) \/ ~IsNullish(LitSlot(l, "en")))

\* C18: ensureLocalizedText(value, fallback) returns a pair with both slots
\* defined whenever the value or the fallback carries at least one text.
C18_SlotsDefined ==
  \A i \in LocalizeCalls :
    (CarriesText(log[i].lits[1]) \/ CarriesText(log[i].lits[2])) =>
       /\ ~IsNullish(log[i].outView.p.fa)
       /\ ~IsNullish(log[i].outView.p.en)

\* The calls that normalized the result of the first call once more, with
\* nothing written in between.
Renormalizations ==
  {i \in LocalizeCalls : i > 1 /\ \A w \in 1..(i - 1) : log[w].op # "write"}

\* A fallback that can add no text to the pair of the first call: an empty
\* one, or the fallback of the first call.
Irrelevant(fallback2) ==
  fallback2 \in {Undefined, Null, Empty} \/ fallback2 = log[1].lits[2]

\* A pair with both slots set.
CompletePair(l) ==
  IsMapLit(l) /\ ~IsNullish(LitSlot(l, "fa")) /\ ~IsNullish(LitSlot(l, "en"))

\* C19: normalizing the result of ensureLocalizedText(x, fb) once more with
\* a fallback that can add nothing returns an equal pair, and a pair with
\* both slots set is returned unchanged for every fallback.
C19_Idempotent ==
  /\ \A i \in Renormalizations : Irrelevant(log[i].lits[2]) => log[i].outView = log[1].outView
  /\ \A i \in LocalizeCalls :
       CompletePair(log[i].lits[1]) =>
         log[i].outView = ObjLit([fa |-> log[i].lits[1].p.fa, en |-> log[i].lits[1].p.en])

\* The calls of a factory that returned an error.
FactoryCalls == {i \in Creations : log[i].op \in ERROR_TYPES}

\* The fixed default code of each factory.
DefaultCode(name) ==
  CASE name = "network" -> "NETWORK_ERROR"
    [] name = "validation" -> "VALIDATION_ERROR"
    [] name = "mapping" -> "MAPPING_ERROR"
    [] name = "permission" -> "PERMISSION_DENIED"
    [] name = "component" -> "COMPONENT_ERROR"
    [] name = "environment" -> "ENVIRONMENT_ERROR"
    [] name = "system" -> "SYSTEM_ERROR"
    [] name = "unknown" -> "UNKNOWN_ERROR"
    [] name = "feature" -> "FEATURE_UNAVAILABLE"

\* C20: an error a factory returns has the factory's category as its type
\* for every option bag; its code is the code option, and the factory's
\* default code without one; its messages are the category's default pair
\* when the bag has no messages (and, for unknown, no originalError and no
\* fallbackMessage), the text in all four slots for a string, and the two
\* supplied messages when both are supplied; its level is the level option,
\* and the category's default severity without one.
C20_FactoryDefaults ==
  \A i \in FactoryCalls :
    LET name == log[i].op
        asked == ArgLit(i)
        got == log[i].outView.p
        messages == LitSlot(asked, "messages")
        defaults == DEFAULT_TYPE_MESSAGES(name).p
    IN /\ got.type = Str(name)
       /\ got.code = IF LitSlot(asked, "code") = Undefined THEN Str(DefaultCode(name))
                     ELSE LitSlot(asked, "code")
       /\ got.level = IF Truthy(LitSlot(asked, "level")) THEN LitSlot(asked, "level")
                      ELSE CategoryLevel(Str(name))
       /\ (IsNullish(messages)
             /\ (name = "unknown" =>
                   /\ IsNullish(LitSlot(asked, "originalError"))
                   /\ IsNullish(LitSlot(asked, "fallbackMessage"))))
            => got.messages = DEFAULT_TYPE_MESSAGES(name)
       /\ messages.t = "string" =>
            got.messages = Messages(ObjLit([fa |-> messages, en |-> messages]),
                                    ObjLit([fa |-> messages, en |-> messages]))
       /\ (Supplied(messages, "user") /\ Supplied(messages, "original")) =>
            got.messages = Messages(LocalizedLit(messages.p.user, defaults.user),
                                    LocalizedLit(messages.p.original, defaults.original))

\* permission() without options: PERMISSION_DENIED and the default texts of
\* the category, whose original text differs from the user text.
C20_Witness ==
  \E i \in FactoryCalls :
    /\ log[i].op = "permission"
    /\ ArgLit(i) = Undefined
    /\ log[i].outView.p.code = Str("PERMISSION_DENIED")
    /\ log[i].outView.p.messages.p.original.p.en = Str("User lacks required permission")

-----------------------------------------------------------------------------
\* C21: a factory called without options, or with an empty option bag,
\* returns an error whose metadata is empty: no url, method or status, no
\* retryCount or isOffline, no originalName, and no key at all.
C21_NoMetadataWithoutOptions ==
  \A i \in FactoryCalls :
    ArgLit(i) \in {Undefined, Empty} => log[i].outView.p.metadata = Empty

-----------------------------------------------------------------------------
\* The calls of the unknown factory that returned an error.
UnknownCalls == {i \in FactoryCalls : log[i].op = "unknown"}

\* A field of a structure or of a native error, undefined where it has none.
FieldLit(l, k) ==
  IF l.t \in {"object", "error"} /\ k \in DOMAIN l.p THEN l.p[k] ELSE Undefined

NoText == [t |-> "none"]

\* The texts the messages may be derived from: the fallback message when
\* given, else the message of the original error, else none.  An empty text
\* may count as given or as not given.
TextsOf(text, others) ==
  IF IsNullish(text) THEN others
  ELSE IF text = Str("") THEN {text} \cup others
  ELSE {text}

FallbackTexts(asked) ==
  TextsOf(FieldLit(asked, "fallbackMessage"),
          TextsOf(FieldLit(FieldLit(asked, "originalError"), "message"), {NoText}))

\* The messages and the reason of an unknown error derived from a text.
DerivedFrom(text, asked) ==
  LET defaults == DEFAULT_TYPE_MESSAGES("unknown").p
      reason == FieldLit(asked, "reason")
  IN [messages |-> IF text = NoText THEN DEFAULT_TYPE_MESSAGES("unknown")
                   ELSE Messages(LocalizedLit(text, defaults.user),
                                 LocalizedLit(text, defaults.original)),
      reason |-> IF ~IsNullish(reason) THEN reason
                 ELSE IF text.t = "string" THEN text ELSE Null]

\* C22: an unknown error without a messages option has both messages
\* derived from fallbackMessage when given, else from originalError.message,
\* else the defaults of the category, and its reason is the supplied reason,
\* else the text they were derived from when that is a string, else null;
\* with a messages option the messages are the explicit ones and the reason
\* is the supplied one, else null; metadata.originalName is the caller's
\* metadata.originalName when given, else the name of originalError.
C22_UnknownDerivation ==
  \A i \in UnknownCalls :
    LET asked == ArgLit(i)
        got == log[i].outView.p
        messages == FieldLit(asked, "messages")
    IN /\ IsNullish(messages) =>
            \E text \in FallbackTexts(asked) :
              /\ got.messages = DerivedFrom(text, asked).messages
              /\ got.reason = DerivedFrom(text, asked).reason
       /\ messages.t = "string" =>
            /\ got.messages = Messages(ObjLit([fa |-> messages, en |-> messages]),
                                       ObjLit([fa |-> messages, en |-> messages]))
            /\ got.reason = Coalesce(FieldLit(asked, "reason"), Null)
       /\ FieldLit(got.metadata, "originalName") =
            Coalesce(FieldLit(FieldLit(asked, "metadata"), "originalName"),
                     FieldLit(FieldLit(asked, "originalError"), "name"))

-----------------------------------------------------------------------------
\* The direct constructions, completed or not.
Constructions == {i \in 1..Len(log) : log[i].op = "new AppError"}

\* C25: new AppError(options) completes whatever the messages, breadcrumbs
\* and causes options are: absent, null, a string, an object or a value of
\* any other type, and sequences with null, primitive or malformed entries.
C25_ConstructionNeverRaises ==
  \A i \in Constructions : ~log[i].threw

-----------------------------------------------------------------------------
\* The build() calls that returned an error.
Builds == {i \in Creations : log[i].op = "build"}

\* The fields two errors built from the same staging state agree on: every
\* field but the stack, and of the breadcrumbs their messages.
BuiltFields ==
  {"code", "type", "level", "messages", "reason", "descriptions", "service", "metadata",
   "causes", "timestamp"}

BreadcrumbMessages(e) == [i \in DOMAIN e.breadcrumbs.e |-> e.breadcrumbs.e[i].p.message]

\* C26: build() does not consume the staging state, and an error once built
\* does not depend on the builder: two consecutive build() calls return two
\* instances that agree on every field, and whatever setters and builds
\* follow, every field of an error built earlier, nested metadata included,
\* keeps the value it had when the error was built.
C26_BuildLeavesBuilderUsable ==
  /\ \A i \in Builds :
       (i + 1) \in Builds =>
         /\ log[i].out # log[i + 1].out
         /\ \A f \in BuiltFields : log[i].outView.p[f] = log[i + 1].outView.p[f]
         /\ BreadcrumbMessages(log[i].outView.p) = BreadcrumbMessages(log[i + 1].outView.p)
  /\ \A i \in Builds : Snapshot(heap, log[i].out) = log[i].outView

\* withMetadata({a: {x: 1}}), build(), withMetadata({a: {y: 2}}): the staged
\* metadata has both keys under a, the error built in between only x.
C26_Witness ==
  /\ Len(log) = 4
  /\ 3 \in Builds
  /\ log[4].op = "withMetadata" /\ ~log[4].threw
  /\ View(heap, builder.state.metadata) = O("a", OO("x", N1, "y", N2))
  /\ Snapshot(heap, log[3].out).p.metadata = O("a", O("x", N1))

-----------------------------------------------------------------------------
\* The setters of the builder.
Setters ==
  {"withMessages", "withReason", "withLevel", "withService", "withMetadata",
   "withDescriptions", "withBreadcrumbs", "withCauses", "withOriginalError",
   "withTimestamp"}

\* The setter of that name, applied.
Setter(op, h, state, v) ==
  CASE op = "withMessages" -> withMessages(h, state, v)
    [] op = "withReason" -> withReason(h, state, v)
    [] op = "withLevel" -> withLevel(h, state, v)
    [] op = "withService" -> withService(h, state, v)
    [] op = "withMetadata" -> withMetadata(h, state, v)
    [] op = "withDescriptions" -> withDescriptions(h, state, v)
    [] op = "withBreadcrumbs" -> withBreadcrumbs(h, state, v)
    [] op = "withCauses" -> withCauses(h, state, v)
    [] op = "withOriginalError" -> withOriginalError(h, state, v)
    [] op = "withTimestamp" -> withTimestamp(h, state, v)

\* The error build() returns at the time of call j when the calls k..j-1 of
\* the log are made again in a new program, the calls that threw left out.
RECURSIVE WithoutThrowing(_, _, _, _)
WithoutThrowing(k, j, h, state) ==
  IF k = j THEN Bind(build(h, state, CalledAt(j)), LAMBDA r : Snapshot(r.h, r.v))
  ELSE IF log[k].threw \/ log[k].op = "build" THEN WithoutThrowing(k + 1, j, h, state)
  ELSE Bind(AllocLit(h, log[k].lits[1]), LAMBDA a :
       Bind(IF log[k].op = "createAppErrorBuilder"
            THEN createAppErrorBuilder(a.h, a.v, CalledAt(k))
            ELSE Setter(log[k].op, a.h, state, a.v), LAMBDA r :
         WithoutThrowing(k + 1, j, r.h, r.state)))

\* The setter calls that threw before call j.
ThrownBefore(j) == {k \in 1..(j - 1) : log[k].op \in Setters /\ log[k].threw}

\* C27: a setter that throws leaves the staging state as it was: build()
\* returns the error it returns when the calls that threw are never made,
\* equal in every field but the stack.
C27_ThrowingSetterNoEffect ==
  \A j \in Builds :
    ThrownBefore(j) # {} =>
      LET same == WithoutThrowing(1, j, <<>>, NoState).p
      IN \A f \in DOMAIN same \ {"stack"} : log[j].outView.p[f] = same[f]

\* withLevel("fatal"), then withLevel("bogus") throws: the error built is
\* fatal.
C27_Witness ==
  /\ Len(log) = 4
  /\ log[2].op = "withLevel" /\ ~log[2].threw
  /\ log[3].op = "withLevel" /\ log[3].threw /\ ArgLit(3) = Str("bogus")
  /\ 4 \in Builds
  /\ log[4].outView.p.level = Str("fatal")

-----------------------------------------------------------------------------
\* The field of the staging state a setter is for.
FieldOf(op) ==
  CASE op = "withMessages" -> "messages"
    [] op = "withReason" -> "reason"
    [] op = "withLevel" -> "level"
    [] op = "withService" -> "service"
    [] op = "withMetadata" -> "metadata"
    [] op = "withDescriptions" -> "descriptions"
    [] op = "withBreadcrumbs" -> "breadcrumbs"
    [] op = "withCauses" -> "causes"
    [] op = "withOriginalError" -> "originalError"
    [] op = "withTimestamp" -> "timestamp"

\* What the setter stores for an argument on a builder that has stored
\* nothing yet.
StoredFirst(op, lit) ==
  Bind(AllocLit(<<>>, CodeAndType(Str("CODE"), Str("network"))), LAMBDA c :
  Bind(createAppErrorBuilder(c.h, c.v, 0), LAMBDA b :
  Bind(AllocLit(b.h, lit), LAMBDA a :
  Bind(Setter(op, a.h, b.state, a.v), LAMBDA r :
    View(r.h, r.state[FieldOf(op)])))))

\* One step of the program: the builder's setter op is called.
SetterStep(op) ==
  /\ builder.live
  /\ Len(log') = Len(log) + 1
  /\ log'[Len(log')].op = op

\* C28: a setter changes its own field of the staging state and no other,
\* code and type never change once the builder is created, and a setter
\* other than withMetadata stores what it would store on a new builder,
\* whatever the field held before (withOriginalError(undefined), which
\* stores nothing, apart).
C28_SettersFrame ==
  [][\A op \in Setters :
       SetterStep(op) =>
         /\ \A f \in DOMAIN builder.state \ {FieldOf(op)} :
              /\ builder'.state[f] = builder.state[f]
              /\ View(heap', builder'.state[f]) = View(heap, builder.state[f])
         /\ (/\ ~log'[Len(log')].threw
             /\ op # "withMetadata"
             /\ ~(op = "withOriginalError" /\ log'[Len(log')].lits[1] = Undefined))
              => View(heap', builder'.state[FieldOf(op)])
                   = StoredFirst(op, log'[Len(log')].lits[1])]_vars

\* withService({name: "n"}) and then withService({method: "m"}): the name
\* is null again.
C28_Witness ==
  /\ Len(log) = 3
  /\ log[2].op = "withService" /\ ArgLit(2) = O("name", Str("n"))
  /\ log[3].op = "withService" /\ ArgLit(3) = O("method", Str("m"))
  /\ View(heap, builder.state.service)
       = ObjLit([name |-> Null, method |-> Str("m"), args |-> Null, operation |-> Null])

-----------------------------------------------------------------------------
\* The isAppError calls.
GuardCalls == {i \in 1..Len(log) : log[i].op = "isAppError"}

\* C30: every error obtained through the entry point, from new AppError, a
\* static shortcut or a builder's build(), is an instance of the AppError
\* class the entry point exports, and AppError.isAppError answers true for
\* each of them and false for every other value.
C30_EntryPointInstances ==
  /\ \A i \in Creations : IsEntryAppError(heap, log[i].out)
  /\ \A i \in GuardCalls :
       log[i].out = Bool(log[i].lits[1].t = "held")

-----------------------------------------------------------------------------
\* The events the platform delivered after the plugin was installed.
Events ==
  {i \in 1..Len(log) :
     log[i].op \in {"unhandledrejection", "rejectionhandled", "error", "componentError"}}

\* Whether the target of an "error" event is an element other than window.
AtElement(i) == "target" \in DOMAIN log[i].lits[1].p /\ log[i].lits[1].p.target.t = "object"

\* The capture site an event belongs to, and the site's identifier.
SiteOf(i) ==
  CASE log[i].op = "unhandledrejection" -> "unhandledRejection"
    [] log[i].op = "rejectionhandled" -> "rejectionHandled"
    [] log[i].op = "error" -> IF AtElement(i) THEN "resourceError" ELSE "globalError"
    [] log[i].op = "componentError" -> "vueError"
CodeOf(site) ==
  CASE site = "unhandledRejection" -> "UNHANDLED_REJECTION"
    [] site = "rejectionHandled" -> "REJECTION_HANDLED"
    [] site = "resourceError" -> "RESOURCE_LOAD_ERROR"
    [] site = "globalError" -> "UNCAUGHT_EXCEPTION"
    [] site = "vueError" -> "VUE_COMPONENT_ERROR"

\* The calls of fn the host received while event i was delivered.
Received(i, fn) ==
  {j \in 1..Len(callbacks) : callbacks[j].at = i /\ callbacks[j].fn = fn}

\* Call j handed over a frozen AppError of type "unknown" with that code.
Reports(j, code) ==
  /\ Len(callbacks[j].args) = 1
  /\ IsAppError(heap, callbacks[j].args[1])
  /\ heap[callbacks[j].args[1].a].frozen
  /\ callbacks[j].views[1].p.type = Str("unknown")
  /\ callbacks[j].views[1].p.code = Str(code)

\* Event i was reported once, under that code.
ReportedOnceAs(i, code) ==
  /\ Cardinality(Received(i, "onError")) = 1
  /\ \A j \in Received(i, "onError") : Reports(j, code)

\* C23: once the plugin is installed, each event at an enabled capture site
\* makes exactly one call onError(e), during the event's delivery, with e a
\* frozen AppError of type "unknown" whose code is the site's identifier.
C23_OneReportPerEvent ==
  \A i \in Events :
    Truthy(plugin.capture[SiteOf(i)]) => ReportedOnceAs(i, CodeOf(SiteOf(i)))

\* The install call.
Installs == {i \in 1..Len(log) : log[i].op = "install"}

\* C24: with component-error capture enabled, install replaces the host's
\* error handler by a wrapper that, for each component error, calls onError
\* once and then the handler registered before install, when that was a
\* function, once with the same (error, instance, info); with the capture
\* disabled the host's error handler is left as it was.
C24_WrapsErrorHandler ==
  \A k \in Installs :
    IF plugin.capture.vueError = Bool(FALSE) THEN errorHandler = log[k].args[1]
    ELSE /\ errorHandler = Wrapper(log[k].args[1])
         /\ \A i \in Events :
              log[i].op = "componentError" =>
                /\ Cardinality(Received(i, "onError")) = 1
                /\ log[k].args[1].t = "function" =>
                     /\ Cardinality(Received(i, log[k].args[1].s)) = 1
                     /\ \A j \in Received(i, log[k].args[1].s) :
                          /\ callbacks[j].args = log[i].args
                          /\ \A o \in Received(i, "onError") : o < j

\* C29: with resource-error and global-error capture both enabled, every
\* "error" event delivered to window makes exactly one onError call,
\* reported as RESOURCE_LOAD_ERROR when its target is an element other than
\* window and as UNCAUGHT_EXCEPTION otherwise, whatever the element's tag.
C29_EveryErrorEventOnce ==
  \A i \in Events :
    /\ log[i].op = "error"
    /\ Truthy(plugin.capture.resourceError)
    /\ Truthy(plugin.capture.globalError)
    => ReportedOnceAs(i, IF AtElement(i) THEN "RESOURCE_LOAD_ERROR"
                         ELSE "UNCAUGHT_EXCEPTION")

====
